---- MODULE Spec2Model ----
(***************************************************************************)
(* Model of the imposition engine of the printing tool suite:              *)
(* usePdfImposition.imposePdf (apps/admin/hooks/usePdfImposition.ts).      *)
(*                                                                         *)
(* Lengths are kept in quarter inches (the code works in points, a         *)
(* uniform factor of 72 per inch that no comparison depends on), so that   *)
(* the two halvings of the code (centring, half-row offset) stay exact.    *)
(*                                                                         *)
(* The App that holds the settings (printing-tool-suite App.tsx) and the   *)
(* cost estimator (calculateCosts, calculateShipping, getCarrierCost) are  *)
(* modelled beside it, each with a specification of its own.               *)
(***************************************************************************)
EXTENDS Integers, Sequences, FiniteSets, TLC

\* ---------------------------------------------------------------- bounds
MaxPages == 9
MaxColumns == 3
MaxRows == 2
\* Most B/W interior pages of a job given to the estimator.
MaxInteriorPages == 4
MaxEffectRuns == 3
\* Pages of a previewed document, and most page renders in flight at once.
MaxPreviewPages == 2
MaxRenders == 3
\* Most object URLs created before imposePdf is called again.
MaxObjectUrls == 2

\* ------------------------------------------------------ program constants
MAX_PAGES_PER_CHUNK_REPEAT == 50
MAX_PAGES_PER_CHUNK_GENERAL == 100
MAX_PAGE_CACHE_SIZE == 20

\* An empty slot (null in pagesForFront / pagesForBack).
Null == 0 - 1

ImpositionTypes == {"stack", "repeat", "collateCut", "booklet"}
SheetOrientations == {"auto", "portrait", "landscape"}
RowOffsetTypes == {"none", "half"}

\* Input page counts that cross the chunk boundaries (50 and 100 output
\* pages) and the 16-page booklet of the documented scenario.
LargePageCounts == {16, 51, 101, 204}

\* SHEET_SIZES[0], "11 x 17 Paper", in quarter inches.
SelectedSheet == [longSide |-> 68, shortSide |-> 44]
\* Sizes of the first input page (5 x 8 in) and gutters (0 and 1 in) the
\* runs are tried with, in quarter inches.
ReferencePageWidths == {20}
ReferencePageHeights == {32}
HorizontalGutters == {0, 4}
VerticalGutters == {0}
\* Bleeds the runs are tried with: none, and 2.5 in, half the page width.
Bleeds == {0, 10}

VARIABLES
    params,              \* ImpositionParams the hook was built with
    pc,                  \* position of imposePdf
    isLoading,           \* useState isLoading
    error,               \* useState error
    chunkIndex,          \* loop variable of the chunk loop
    physicalSheetIndex,  \* loop variable of the sheet loop
    outputPdfDoc,        \* the output document of the current chunk
    downloads,           \* files handed to the browser (link.click())
    cancelRequested      \* the caller has asked the run to stop

\* The cost estimator: a call of calculateCosts and a call of
\* calculateShipping, each with its argument and its result.
VARIABLES
    details,             \* JobDetails given to calculateCosts
    costBreakdown,       \* CostBreakdown it returned
    shipment,            \* arguments of calculateShipping
    shippingResult,      \* { shippingCost, breakdown } it returned
    estimatorPc          \* which call is under way, or has returned

\* A call of one of the pure functions of the repository on its own.
VARIABLES
    call,                \* the arguments of the call
    result               \* what it returned, once it has

\* The object URLs of usePdfImposition: URLs are numbered from 1 in the
\* order URL.createObjectURL returns them, 0 stands for null.
VARIABLES
    outputPdfUrl,          \* useState outputPdfUrl
    currentOutputUrlRef,   \* currentOutputUrlRef.current
    urlToRevokeOnUnmount,  \* the const of the effect that runs at mount
    urlsCreated,           \* how many URLs createObjectURL has returned
    revokedUrls,           \* the URLs given to URL.revokeObjectURL
    imposeMounted          \* the component using the hook is mounted

urlVars == <<outputPdfUrl, currentOutputUrlRef, urlToRevokeOnUnmount,
             urlsCreated, revokedUrls, imposeMounted>>

imposeVars == <<params, pc, isLoading, error, chunkIndex, physicalSheetIndex,
                outputPdfDoc, downloads, cancelRequested, urlVars>>

estimatorVars == <<details, costBreakdown, shipment, shippingResult, estimatorPc>>

\* The usePdfInfo hook: its props and state, the runs of its effect, the
\* loading task ref and the documents destroy() has been called on.
VARIABLES
    inputFile,           \* the prop: a file (1, 2, ...) or 0 for null
    pdfDocProxy,         \* useState pdfDocProxy: the document loaded by run e
                         \* of the effect, or 0 for null
    pdfInfoState,        \* useState pdfInfo (set or not), isLoading, error
    effectRuns,          \* per run of the effect: isMounted, createdDoc, position
    loadingTaskRef,      \* the run whose loading task the ref holds, or 0
    destroyedDocs,       \* documents (and loading tasks) destroyed so far
    hookMounted          \* the component using the hook is mounted

\* The preview's page cache: the document prop, the three refs and the
\* getCachedPage calls that are waiting for the PDF library.
VARIABLES
    previewDoc,          \* the prop pdfDocProxy: a document (1, 2) or 0 for null
    pageRenderCacheRef,  \* page index -> the document its canvas was rendered from
    pageRenderLruRef,    \* page indices, least recently used first
    pinnedPagesRef,      \* page indices
    pageRenders          \* getCachedPage calls in flight: pageIndex,
                         \* currentPdfJsDoc, position, pinned by the caller

\* The preview's position: the settings it is given as props, the sheet and
\* side it shows, and the sheet count its effect computes.
VARIABLES
    previewProps,                \* impositionType, columns, rows, isDuplex
    currentPhysicalSheet0Based,
    currentSideIsFront,
    totalPhysicalSheetsPreview

callVars == <<call, result>>

navVars == <<previewProps, currentPhysicalSheet0Based, currentSideIsFront,
             totalPhysicalSheetsPreview>>

previewVars == <<previewDoc, pageRenderCacheRef, pageRenderLruRef,
                 pinnedPagesRef, pageRenders>>

pdfInfoVars == <<inputFile, pdfDocProxy, pdfInfoState, effectRuns,
                 loadingTaskRef, destroyedDocs, hookMounted>>

otherVars == <<callVars, pdfInfoVars, previewVars, navVars>>

vars == <<params, pc, isLoading, error, chunkIndex, physicalSheetIndex,
          outputPdfDoc, downloads, cancelRequested, urlVars,
          details, costBreakdown, shipment, shippingResult, estimatorPc,
          otherVars>>

\* Math.ceil(a / b) for a >= 0, b > 0.
CeilDiv(a, b) == (a + b - 1) \div b

Min(a, b) == IF a < b THEN a ELSE b

numInputPages == params.numInputPages
columns == params.columns
rows == params.rows
isDuplex == params.isDuplex
impositionType == params.impositionType
readingDirection == params.readingDirection

\* ------------------------------------------------- 1. total output sheets
slotsPerSheet ==
    IF impositionType = "booklet" THEN 2 ELSE columns * rows

paddedPageCount ==
    IF impositionType = "booklet" THEN CeilDiv(numInputPages, 4) * 4
    ELSE numInputPages

\* totalPhysicalSheets with the stack branch forgetting that a duplex sheet
\* takes two pages per slot.
totalPhysicalSheets_StackIgnoresDuplex ==
    LET t == CASE impositionType = "booklet" -> paddedPageCount \div 4
               [] impositionType = "repeat" ->
                    IF isDuplex THEN CeilDiv(numInputPages, 2) ELSE numInputPages
               [] impositionType = "stack" ->
                    CeilDiv(numInputPages, slotsPerSheet)
               [] OTHER ->
                    LET pagesPerLogicalStack == CeilDiv(numInputPages, slotsPerSheet)
                    IN IF isDuplex THEN CeilDiv(pagesPerLogicalStack, 2)
                       ELSE pagesPerLogicalStack
    IN IF t = 0 /\ numInputPages > 0 THEN 1 ELSE t

\* totalPhysicalSheets with the repeat branch forgetting that a duplex sheet
\* takes two input pages.
totalPhysicalSheets_RepeatIgnoresDuplex ==
    LET t == CASE impositionType = "booklet" -> paddedPageCount \div 4
               [] impositionType = "repeat" -> numInputPages
               [] impositionType = "stack" ->
                    CeilDiv(numInputPages, slotsPerSheet * (IF isDuplex THEN 2 ELSE 1))
               [] OTHER ->
                    LET pagesPerLogicalStack == CeilDiv(numInputPages, slotsPerSheet)
                    IN IF isDuplex THEN CeilDiv(pagesPerLogicalStack, 2)
                       ELSE pagesPerLogicalStack
    IN IF t = 0 /\ numInputPages > 0 THEN 1 ELSE t

totalPhysicalSheets ==
    LET t == CASE impositionType = "booklet" -> paddedPageCount \div 4
               [] impositionType = "repeat" ->
                    IF isDuplex THEN CeilDiv(numInputPages, 2) ELSE numInputPages
               [] impositionType = "stack" ->
                    CeilDiv(numInputPages, slotsPerSheet * (IF isDuplex THEN 2 ELSE 1))
               [] OTHER ->
                    LET pagesPerLogicalStack == CeilDiv(numInputPages, slotsPerSheet)
                    IN IF isDuplex THEN CeilDiv(pagesPerLogicalStack, 2)
                       ELSE pagesPerLogicalStack
    IN IF t = 0 /\ numInputPages > 0 THEN 1 ELSE t

\* ------------------------------------------------------------ 2. chunking
pageLimit ==
    IF impositionType = "repeat" THEN MAX_PAGES_PER_CHUNK_REPEAT
    ELSE MAX_PAGES_PER_CHUNK_GENERAL

sheetsPerChunk == IF isDuplex THEN pageLimit \div 2 ELSE pageLimit

needsChunking == params.isLargeFile

totalChunks ==
    IF needsChunking THEN CeilDiv(totalPhysicalSheets, sheetsPerChunk) ELSE 1

\* The title the downloads are named after, and the name of the download
\* of the current chunk.
downloadFileNameBase == "title"

downloadName ==
    IF needsChunking
      THEN downloadFileNameBase \o "_part_" \o ToString(chunkIndex + 1)
             \o "_of_" \o ToString(totalChunks) \o ".pdf"
    ELSE downloadFileNameBase \o ".pdf"

chunkStartSheet == chunkIndex * sheetsPerChunk

\* chunkEndSheet without the clamp to the sheet count.
chunkEndSheet_Unclamped ==
    IF needsChunking THEN chunkStartSheet + sheetsPerChunk
    ELSE totalPhysicalSheets

chunkEndSheet ==
    IF needsChunking THEN Min(chunkStartSheet + sheetsPerChunk, totalPhysicalSheets)
    ELSE totalPhysicalSheets

\* ------------------------------------- 3. sheet dimensions, slot positions
paperLongSidePoints == SelectedSheet.longSide
paperShortSidePoints == SelectedSheet.shortSide
layoutCellWidth == params.pageWidth
layoutCellHeight == params.pageHeight
horizontalGutterPoints == params.horizontalGutter
verticalGutterPoints == params.verticalGutter
bleedPoints == params.bleed

HalfStride == (layoutCellWidth + horizontalGutterPoints) \div 2

\* Width and height of a cols x rws grid of cells with its gutters.
BlockWidth(cols, rws) ==
    layoutCellWidth * cols
      + (IF cols > 1 THEN cols - 1 ELSE 0) * horizontalGutterPoints
      + (IF params.rowOffsetType = "half" /\ rws > 1 THEN HalfStride ELSE 0)

BlockHeight(rws) ==
    layoutCellHeight * rws + (IF rws > 1 THEN rws - 1 ELSE 0) * verticalGutterPoints

\* The sheet as the code orients it for a content block of cols x rws
\* cells: ok = FALSE is the auto-orientation failure.
OrientedSheet(cols, rws) ==
    LET w == BlockWidth(cols, rws)
        h == BlockHeight(rws)
        canFitLandscape == w <= paperLongSidePoints /\ h <= paperShortSidePoints
        canFitPortrait == w <= paperShortSidePoints /\ h <= paperLongSidePoints
        widerThanTall == w * paperShortSidePoints > h * paperLongSidePoints
        landscape == [ok |-> TRUE, width |-> paperLongSidePoints,
                      height |-> paperShortSidePoints]
        portrait == [ok |-> TRUE, width |-> paperShortSidePoints,
                     height |-> paperLongSidePoints]
    IN CASE params.sheetOrientation = "portrait" -> portrait
         [] params.sheetOrientation = "landscape" -> landscape
         [] OTHER ->
              IF canFitLandscape /\ canFitPortrait
                THEN (IF widerThanTall THEN landscape ELSE portrait)
              ELSE IF canFitLandscape THEN landscape
              ELSE IF canFitPortrait THEN portrait
              ELSE [ok |-> FALSE, width |-> 0, height |-> 0]

\* actualSheetWidthPoints / actualSheetHeightPoints: auto looks at the
\* columns x rows of the parameters.
actualSheet == OrientedSheet(columns, rows)

currentColumnsForLayout == IF impositionType = "booklet" THEN 2 ELSE columns
currentRowsForLayout == IF impositionType = "booklet" THEN 1 ELSE rows

totalRequiredWidth == BlockWidth(currentColumnsForLayout, currentRowsForLayout)
totalRequiredHeight == BlockHeight(currentRowsForLayout)

\* Twice startXBlock / startYBlock would be the plain difference; the
\* quarter-inch unit makes the halves exact.
startXBlock == (actualSheet.width - totalRequiredWidth) \div 2
startYBlock == (actualSheet.height - totalRequiredHeight) \div 2

\* SlotY counting the rows from the bottom of the sheet.
SlotY_BottomUp(row) ==
    startYBlock + row * (layoutCellHeight + verticalGutterPoints)

\* yPos of a row: row 0 is the topmost row (PDF y grows upward).
SlotY(row) ==
    startYBlock + (currentRowsForLayout - 1 - row) * (layoutCellHeight + verticalGutterPoints)

SlotX(row, col) ==
    startXBlock + col * (layoutCellWidth + horizontalGutterPoints)
      + (IF params.rowOffsetType = "half" /\ row % 2 # 0 THEN HalfStride ELSE 0)

\* slotPositions, indexed 1 .. columns * rows in push order.
slotPositions ==
    [s \in 1..(currentColumnsForLayout * currentRowsForLayout) |->
        LET row == (s - 1) \div currentColumnsForLayout
            col == (s - 1) % currentColumnsForLayout
        IN [x |-> SlotX(row, col), y |-> SlotY(row)]]

\* PlanError checking the width of the content block only.
PlanError_WidthOnly ==
    IF ~actualSheet.ok THEN "AutoOrientationFailed"
    ELSE IF startXBlock < 0 THEN "ContentTooLarge"
    ELSE "none"

\* The configuration error the plan throws, "none" if it throws none.
PlanError ==
    IF ~actualSheet.ok THEN "AutoOrientationFailed"
    ELSE IF startXBlock < 0 \/ startYBlock < 0 THEN "ContentTooLarge"
    ELSE "none"

ConfigErrors == {"AutoOrientationFailed", "ContentTooLarge"}

\* ---------------------------------------------------------- 4. pagination
\* inputPages[i], or null when the code finds no page there.
PageOrNull(i) == IF i >= 0 /\ i < numInputPages THEN i ELSE Null

pageIndexFR(k) == k * 2
\* pageIndexFL counted from the unpadded page count.
pageIndexFL_Unpadded(k) == numInputPages - (k * 2) - 1
pageIndexFL(k) == paddedPageCount - (k * 2) - 1
pageIndexBL(k) == k * 2 + 1
\* pageIndexBR one too high: the index of the front-left page.
pageIndexBR_AsFrontLeft(k) == paddedPageCount - (k * 2) - 1
pageIndexBR(k) == paddedPageCount - (k * 2) - 2

\* totalSlotsPerColumn as the pages of one logical stack, not rounded up to
\* whole duplex sheets.
totalSlotsPerColumn_Unrounded == CeilDiv(numInputPages, slotsPerSheet)

\* Slot offsets of collateCut: slot i starts its stack at i * totalSlotsPerColumn.
totalSlotsPerColumn ==
    LET pagesPerLogicalStack == CeilDiv(numInputPages, slotsPerSheet)
        totalSheetsForMode == IF isDuplex THEN CeilDiv(pagesPerLogicalStack, 2)
                              ELSE pagesPerLogicalStack
    IN totalSheetsForMode * (IF isDuplex THEN 2 ELSE 1)

\* pagesForFront with the duplex stack branch not interleaving (i, not 2*i).
pagesForFront_NoInterleave(k) ==
    CASE impositionType = "booklet" ->
           <<PageOrNull(pageIndexFL(k)), PageOrNull(pageIndexFR(k))>>
      [] impositionType = "stack" ->
           LET baseInputIndexForSheet == k * slotsPerSheet * (IF isDuplex THEN 2 ELSE 1)
           IN [s \in 1..slotsPerSheet |-> PageOrNull(baseInputIndexForSheet + (s - 1))]
      [] impositionType = "repeat" ->
           [s \in 1..slotsPerSheet |-> PageOrNull(k * (IF isDuplex THEN 2 ELSE 1))]
      [] OTHER ->
           LET logicalPageIndexFront == k * (IF isDuplex THEN 2 ELSE 1)
           IN [s \in 1..slotsPerSheet |->
                 PageOrNull(logicalPageIndexFront + (s - 1) * totalSlotsPerColumn)]

pagesForFront(k) ==
    CASE impositionType = "booklet" ->
           <<PageOrNull(pageIndexFL(k)), PageOrNull(pageIndexFR(k))>>
      [] impositionType = "stack" ->
           LET baseInputIndexForSheet == k * slotsPerSheet * (IF isDuplex THEN 2 ELSE 1)
           IN [s \in 1..slotsPerSheet |->
                 PageOrNull(baseInputIndexForSheet
                              + (IF isDuplex THEN (s - 1) * 2 ELSE s - 1))]
      [] impositionType = "repeat" ->
           [s \in 1..slotsPerSheet |-> PageOrNull(k * (IF isDuplex THEN 2 ELSE 1))]
      [] OTHER ->
           LET logicalPageIndexFront == k * (IF isDuplex THEN 2 ELSE 1)
           IN [s \in 1..slotsPerSheet |->
                 PageOrNull(logicalPageIndexFront + (s - 1) * totalSlotsPerColumn)]

pagesForBack(k) ==
    CASE impositionType = "booklet" ->
           <<PageOrNull(pageIndexBL(k)), PageOrNull(pageIndexBR(k))>>
      [] impositionType = "stack" ->
           LET baseInputIndexForSheet == k * slotsPerSheet * 2
           IN [s \in 1..slotsPerSheet |->
                 PageOrNull(baseInputIndexForSheet + ((s - 1) * 2) + 1)]
      [] impositionType = "repeat" ->
           [s \in 1..slotsPerSheet |-> PageOrNull((k * 2) + 1)]
      [] OTHER ->
           LET logicalPageIndexBack == (k * 2) + 1
           IN [s \in 1..slotsPerSheet |->
                 PageOrNull(logicalPageIndexBack + (s - 1) * totalSlotsPerColumn)]

\* pagesForBackToRender without the work-and-turn reversal.
pagesForBackToRender_NoReversal(k) == pagesForBack(k)

\* Work-and-turn: the back pages with every row of slots reversed.
pagesForBackToRender(k) ==
    IF impositionType \in {"stack", "collateCut"} /\ columns > 1
      THEN [s \in 1..slotsPerSheet |->
              LET row == (s - 1) \div columns
                  col == (s - 1) % columns
              IN pagesForBack(k)[row * columns + (columns - 1 - col) + 1]]
    ELSE pagesForBack(k)

\* The trim rectangle the crop marks of a drawn page are set around.
trimAreaWidth == layoutCellWidth - (2 * bleedPoints)
trimAreaHeight == layoutCellHeight - (2 * bleedPoints)

\* The side of a drawn page the spine slug text is set on (spine marks
\* shown, no alternate rotation): in a booklet by the half of the spread,
\* elsewhere by the side of the sheet.
isSpineOnLeft(front, i) ==
    IF impositionType = "booklet"
      THEN (IF readingDirection = "ltr" THEN ~(i = 0) ELSE i = 0)
    ELSE IF front THEN readingDirection = "ltr" ELSE readingDirection # "ltr"

\* The drawPage calls of one side, in the order the slot loop makes them:
\* slots without a page are skipped.
DrawsOf(pages, front) ==
    LET all == [s \in 1..Len(pages) |->
                  [slot |-> s - 1, page |-> pages[s],
                   x |-> slotPositions[s].x, y |-> slotPositions[s].y,
                   trimWidth |-> trimAreaWidth, trimHeight |-> trimAreaHeight,
                   spineOnLeft |-> isSpineOnLeft(front, s - 1)]]
    IN SelectSeq(all, LAMBDA d : d.page # Null)

NoDoc == [open |-> FALSE, pages |-> <<>>]

\* ------------------------------------------------------ the cost estimator
\* The estimator computes in floating point.  Its quantities are kept here
\* as whole numbers of a unit fine enough for every value that occurs:
\*   lengths  1/254000 inch  (gsm * 0.9 / 25400 and gsm * 1.3 / 25400 inch,
\*                            the thickness of a leaf, are whole numbers),
\*   weights  1/1000 pound,
\*   money    1/100000 dollar,
\*   time     1/75000 minute (a sheet at 15 sheets a minute, a metre at 5 m
\*                            a minute and a book at 300 or 400 books an hour
\*                            are whole numbers).
\* A quotient the code leaves as a fraction is rounded down to the unit.
UnitsPerInch == 10 * 25400
Inches(hundredths) == hundredths * (UnitsPerInch \div 100)
TimeUnitsPerMinute == 3 * 25000

COLOR_CLICK_COST == 3900
BW_CLICK_COST == 900
GLOSS_LAMINATE_COST_PER_COVER == 30000
MATTE_LAMINATE_COST_PER_COVER == 60000
PRINTING_SPEED_SPM == 15
LAMINATING_SPEED_MPM == 5
PERFECT_BINDER_SETUP_MINS == 15
PERFECT_BINDER_SPEED_BPH == 300
SADDLE_STITCHER_SETUP_MINS == 10
SADDLE_STITCHER_SPEED_BPH == 400
BASE_PREP_TIME_MINS == 20
\* WASTAGE_FACTOR 0.15 and BINDING_INEFFICIENCY_FACTOR 1.20, in hundredths.
WASTAGE_FACTOR == 15
BINDING_INEFFICIENCY_FACTOR == 120
TRIMMING_SETUP_MINS == 10
TRIMMING_BOOKS_PER_CYCLE == 250
TRIMMING_CYCLE_TIME_MINS == 5
\* SQ_INCH_TO_SQ_METER 0.00064516 and GRAMS_TO_LBS 0.00220462, in 1e-8.
SQ_INCH_TO_SQ_METER == 64516
GRAMS_TO_LBS == 220462
\* MAX_WEIGHT_PER_BOX_LBS 40, in thousandths of a pound.
MAX_WEIGHT_PER_BOX_LBS == 40000

\* The two values of a JavaScript number that are no number of the units:
\* x / 0 is Infinity for x > 0 and NaN for x = 0, 0 * Infinity is NaN.
Infinity == 0 - 1
NaN == 0 - 2

\* Math.floor(a / b) for a >= 0, b >= 0.
FloorDiv(a, b) ==
    IF b = 0 THEN (IF a = 0 THEN NaN ELSE Infinity) ELSE a \div b

\* x * y for x, y >= 0 or Infinity or NaN.
Times(x, y) ==
    IF x = NaN \/ y = NaN THEN NaN
    ELSE IF x = Infinity \/ y = Infinity
         THEN (IF x = 0 \/ y = 0 THEN NaN ELSE Infinity)
         ELSE x * y

\* x + y for x, y >= 0 or Infinity or NaN.
Plus(x, y) ==
    IF x = NaN \/ y = NaN THEN NaN
    ELSE IF x = Infinity \/ y = Infinity THEN Infinity
    ELSE x + y

\* Math.max(...s): NaN if any element is NaN.
MathMax(s) ==
    IF \E i \in DOMAIN s : s[i] = NaN THEN NaN
    ELSE IF \E i \in DOMAIN s : s[i] = Infinity THEN Infinity
    ELSE s[CHOOSE i \in DOMAIN s : \A j \in DOMAIN s : s[j] <= s[i]]

\* Math.min(x, y): NaN if either is NaN.
MathMin(x, y) ==
    IF x = NaN \/ y = NaN THEN NaN
    ELSE IF x = Infinity THEN y
    ELSE IF y = Infinity THEN x
    ELSE Min(x, y)

\* Math.ceil(a / b) for a >= 0 and b > 0, Infinity or NaN.
CeilQuotient(a, b) ==
    IF b = NaN THEN NaN
    ELSE IF b = Infinity THEN 0
    ELSE CeilDiv(a, b)

\* x < y: false whenever either side is NaN.
LessThan(x, y) ==
    /\ x # NaN
    /\ y # NaN
    /\ x # Infinity
    /\ (y = Infinity \/ x < y)

\* [a, b, c].sort((x, y) => y - x)
SortDescending(a, b, c) ==
    LET hi == IF a >= b /\ a >= c THEN a ELSE IF b >= c THEN b ELSE c
        lo == IF a <= b /\ a <= c THEN a ELSE IF b <= c THEN b ELSE c
    IN <<hi, a + b + c - hi - lo, lo>>

\* shippingBoxes.  A height that is an array is multiDepth; a height that is
\* a number is the one-element list.
SmallBoxName == "Standard Small Box (11.75x8.75x4.75)"
MultiDepthBoxName == "Large Multi-Depth Box (12.25x9.25x12)"

shippingBoxes ==
    << [name |-> SmallBoxName, width |-> Inches(1175), length |-> Inches(875),
        height |-> <<Inches(475)>>, multiDepth |-> FALSE, cost |-> 175000],
       [name |-> "Standard Medium Box (11.25x8.75x9.5)",
        width |-> Inches(1125), length |-> Inches(875),
        height |-> <<Inches(950)>>, multiDepth |-> FALSE, cost |-> 250000],
       [name |-> "Standard Large Box (12x9x10)",
        width |-> Inches(1200), length |-> Inches(900),
        height |-> <<Inches(1000)>>, multiDepth |-> FALSE, cost |-> 300000],
       [name |-> MultiDepthBoxName, width |-> Inches(1225), length |-> Inches(925),
        height |-> <<Inches(1200), Inches(1000), Inches(800), Inches(600)>>,
        multiDepth |-> TRUE, cost |-> 350000] >>

\* getCarrierCost(totalWeightLbs)
\* getCarrierCost with the tail over 50 lb charged by the pound alone,
\* without the 42.00 of the last tier.
getCarrierCost_TailWithoutBase(totalWeightLbs) ==
    IF totalWeightLbs <= 0 THEN 0
    ELSE IF totalWeightLbs <= 1000 THEN 950000
    ELSE IF totalWeightLbs <= 5000 THEN 1200000
    ELSE IF totalWeightLbs <= 10000 THEN 1500000
    ELSE IF totalWeightLbs <= 20000 THEN 2000000
    ELSE IF totalWeightLbs <= 30000 THEN 2800000
    ELSE IF totalWeightLbs <= 40000 THEN 3500000
    ELSE IF totalWeightLbs <= 50000 THEN 4200000
    ELSE totalWeightLbs * 75

getCarrierCost(totalWeightLbs) ==
    IF totalWeightLbs <= 0 THEN 0
    ELSE IF totalWeightLbs <= 1000 THEN 950000
    ELSE IF totalWeightLbs <= 5000 THEN 1200000
    ELSE IF totalWeightLbs <= 10000 THEN 1500000
    ELSE IF totalWeightLbs <= 20000 THEN 2000000
    ELSE IF totalWeightLbs <= 30000 THEN 2800000
    ELSE IF totalWeightLbs <= 40000 THEN 3500000
    ELSE IF totalWeightLbs <= 50000 THEN 4200000
    ELSE 4200000 + (totalWeightLbs - 50000) * 75

\* One entry of shippingBoxes.flatMap(...): a box per height, the height
\* (whole inches in the catalog) appended to the name of a multi-depth box.
FlatBox(box, k) ==
    [name |-> IF box.multiDepth
              THEN box.name \o " (" \o ToString(box.height[k] \div UnitsPerInch) \o "\")"
              ELSE box.name,
     width |-> box.width, length |-> box.length, height |-> box.height[k],
     cost |-> box.cost]

RECURSIVE FlatMap(_, _)
FlatMap(boxes, i) ==
    IF i > Len(boxes) THEN <<>>
    ELSE [k \in 1..Len(boxes[i].height) |-> FlatBox(boxes[i], k)]
         \o FlatMap(boxes, i + 1)

flatBoxes == FlatMap(shippingBoxes, 1)

\* overrideBoxName null, undefined or "" : no override.
NoOverride == ""

boxesToConsider(overrideBoxName) ==
    IF overrideBoxName # NoOverride
    THEN SelectSeq(flatBoxes, LAMBDA box : box.name = overrideBoxName)
    ELSE flatBoxes

\* breakdown: null
NoShippingBreakdown ==
    [boxName |-> "null", boxCount |-> 0, booksPerBox |-> 0, totalWeightLbs |-> 0]

\* The check that a single book can fit: sorted book against sorted box.
SingleBookFits(box, s) ==
    LET bookDims == SortDescending(s.bookWidth, s.bookLength, s.bookSpine)
        boxDims == SortDescending(box.width, box.length, box.height)
    IN ~(bookDims[1] > boxDims[1] \/ bookDims[2] > boxDims[2]
         \/ bookDims[3] > boxDims[3])

\* The floor product of one orientation, left to right.
FloorProduct(W, a, L, b, H, c) ==
    Times(Times(FloorDiv(W, a), FloorDiv(L, b)), FloorDiv(H, c))

\* orientations with the first orientation standing the book up as the second
\* does: no orientation stacks the books flat with the width along W.
orientations_NoFlatStack(box, s) ==
    LET w == s.bookWidth
        l == s.bookLength
        sp == s.bookSpine
        W == box.width
        L == box.length
        H == box.height
    IN << FloorProduct(W, w, L, sp, H, l),
          FloorProduct(W, w, L, sp, H, l),
          FloorProduct(W, l, L, w, H, sp),
          FloorProduct(W, l, L, sp, H, w),
          FloorProduct(W, sp, L, w, H, l),
          FloorProduct(W, sp, L, l, H, w) >>

orientations(box, s) ==
    LET w == s.bookWidth
        l == s.bookLength
        sp == s.bookSpine
        W == box.width
        L == box.length
        H == box.height
    IN << FloorProduct(W, w, L, l, H, sp),
          FloorProduct(W, w, L, sp, H, l),
          FloorProduct(W, l, L, w, H, sp),
          FloorProduct(W, l, L, sp, H, w),
          FloorProduct(W, sp, L, w, H, l),
          FloorProduct(W, sp, L, l, H, w) >>

maxBooksByWeight(s) == MAX_WEIGHT_PER_BOX_LBS \div s.bookWeightLbs

\* booksPerBox without the weight constraint.
booksPerBox_NoWeightCap(box, s) == MathMax(orientations(box, s))

\* booksPerBox after the weight constraint.
booksPerBox(box, s) ==
    MathMin(MathMax(orientations(box, s)), maxBooksByWeight(s))

\* The body of the loop for one box: bestOption after it.
ConsiderBox(box, bestOption, s) ==
    IF ~SingleBookFits(box, s) THEN bestOption
    ELSE IF MathMax(orientations(box, s)) = 0 THEN bestOption
    ELSE IF ~(maxBooksByWeight(s) > 0) THEN bestOption
    ELSE
        LET boxCount == CeilQuotient(s.quantity, booksPerBox(box, s))
            handlingCost == Times(boxCount, box.cost)
            totalWeightLbs == s.quantity * s.bookWeightLbs
            carrierCost == getCarrierCost(totalWeightLbs)
            totalCost == Plus(handlingCost, carrierCost)
        IN IF LessThan(totalCost, bestOption.cost)
           THEN [cost |-> totalCost,
                 breakdown |-> [boxName |-> box.name,
                                boxCount |-> boxCount,
                                booksPerBox |-> booksPerBox(box, s),
                                totalWeightLbs |-> totalWeightLbs]]
           ELSE bestOption

RECURSIVE BestOption(_, _, _, _)
BestOption(boxes, i, bestOption, s) ==
    IF i > Len(boxes) THEN bestOption
    ELSE BestOption(boxes, i + 1, ConsiderBox(boxes[i], bestOption, s), s)

\* calculateShipping(quantity, bookWidth, bookLength, bookSpine,
\*                   bookWeightLbs, overrideBoxName), its arguments in s.
calculateShipping(s) ==
    IF s.quantity <= 0 \/ s.bookWeightLbs <= 0
    THEN [shippingCost |-> 0, breakdown |-> NoShippingBreakdown]
    ELSE
        LET bestOption ==
                BestOption(boxesToConsider(s.overrideBoxName), 1,
                           [cost |-> Infinity, breakdown |-> NoShippingBreakdown], s)
        IN [shippingCost |-> IF bestOption.cost = Infinity THEN 0 ELSE bestOption.cost,
            breakdown |-> bestOption.breakdown]

\* paperData: the catalog of paper stocks (sku, gsm, type, parent sheet,
\* cost per sheet).  A text stock, a coated text stock and a cover stock.
TextSku == "80-TEXT-UNCOATED-13x19"
GlossSku == "100-TEXT-GLOSS-12x18"
CoverSku == "100-COVER-GLOSS-13x19"

paperData ==
    << [sku |-> TextSku, gsm |-> 120, type |-> "Uncoated",
        parentWidth |-> Inches(1300), parentHeight |-> Inches(1900),
        costPerSheet |-> 8000],
       [sku |-> GlossSku, gsm |-> 150, type |-> "Coated",
        parentWidth |-> Inches(1200), parentHeight |-> Inches(1800),
        costPerSheet |-> 11000],
       [sku |-> CoverSku, gsm |-> 270, type |-> "Coated",
        parentWidth |-> Inches(1300), parentHeight |-> Inches(1900),
        costPerSheet |-> 25000] >>

\* The result of a find that matches nothing: undefined.
NoPaper ==
    [sku |-> "undefined", gsm |-> 0, type |-> "undefined",
     parentWidth |-> 0, parentHeight |-> 0, costPerSheet |-> 0]

\* paperData.find(p => p.sku === sku)
FindPaper(sku) ==
    LET hits == {i \in 1..Len(paperData) : paperData[i].sku = sku}
    IN IF hits = {} THEN NoPaper
       ELSE paperData[CHOOSE i \in hits : \A j \in hits : i <= j]

calculateImposition(parentW, parentH, jobW, jobH) ==
    IF jobW <= 0 \/ jobH <= 0 THEN 0
    ELSE
        LET fit1 == (parentW \div jobW) * (parentH \div jobH)
            fit2 == (parentW \div jobH) * (parentH \div jobW)
        IN IF fit1 >= fit2 THEN fit1 ELSE fit2

\* getPaperThicknessInches(paper): gsm * caliperFactor / 25400 inch.
getPaperThicknessInches(paper) ==
    paper.gsm * (IF paper.type = "Coated" THEN 9 ELSE 13)

emptyLaborBreakdown ==
    [printingTimeMins |-> 0, laminatingTimeMins |-> 0, bindingTimeMins |-> 0,
     setupTimeMins |-> 0, trimmingTimeMins |-> 0, wastageTimeMins |-> 0]

\* error: undefined
NoCostError == "undefined"

createEmptyCostBreakdown(error_) ==
    [error |-> error_,
     bwPaperCost |-> 0, colorPaperCost |-> 0, coverPaperCost |-> 0,
     bwClickCost |-> 0, colorClickCost |-> 0, coverClickCost |-> 0,
     laminationCost |-> 0, laborCost |-> 0, shippingCost |-> 0, subtotal |-> 0,
     markupAmount |-> 0, totalCost |-> 0, pricePerUnit |-> 0,
     bwPressSheets |-> 0, colorPressSheets |-> 0, coverPressSheets |-> 0,
     bwImposition |-> 0, colorImposition |-> 0, coverImposition |-> 0,
     totalClicks |-> 0, productionTimeHours |-> 0,
     laborTimeBreakdown |-> emptyLaborBreakdown,
     shippingBreakdown |-> NoShippingBreakdown]

\* pages > 0 ? pages : 0
Clamped(pages) == IF pages > 0 THEN pages ELSE 0

totalInteriorPages(d) == Clamped(d.bwPages) + Clamped(d.colorPages)

\* spoilageMultiplier with the spoilage taken off instead of added.
spoilageMultiplier_Subtracted(d) == 100 - d.spoilagePercent

\* spoilageMultiplier, in hundredths: 1 + (spoilagePercent || 0) / 100.
spoilageMultiplier(d) == 100 + d.spoilagePercent

bwImposition(d) ==
    LET bwPaper == FindPaper(d.bwPaperSku)
    IN IF bwPaper # NoPaper
       THEN calculateImposition(bwPaper.parentWidth, bwPaper.parentHeight,
                                d.finishedWidth, d.finishedHeight)
       ELSE 0

colorImposition(d) ==
    LET colorPaper == FindPaper(d.colorPaperSku)
    IN IF colorPaper # NoPaper
       THEN calculateImposition(colorPaper.parentWidth, colorPaper.parentHeight,
                                d.finishedWidth, d.finishedHeight)
       ELSE 0

\* spineWidth: 0 unless the job has a cover whose paper is found and is
\* perfect bound.
spineWidth(d) ==
    LET bwPaper == FindPaper(d.bwPaperSku)
        colorPaper == FindPaper(d.colorPaperSku)
        bwLeaves == CeilDiv(Clamped(d.bwPages), 2)
        colorLeaves == CeilDiv(Clamped(d.colorPages), 2)
        bwPaperThickness ==
            IF bwPaper # NoPaper /\ d.bwPages > 0
            THEN getPaperThicknessInches(bwPaper) ELSE 0
        colorPaperThickness ==
            IF colorPaper # NoPaper /\ d.colorPages > 0
            THEN getPaperThicknessInches(colorPaper) ELSE 0
    IN IF d.hasCover /\ FindPaper(d.coverPaperSku) # NoPaper
          /\ d.bindingMethod = "perfectBound"
       THEN bwLeaves * bwPaperThickness + colorLeaves * colorPaperThickness
       ELSE 0

coverImposition(d) ==
    LET coverPaper == FindPaper(d.coverPaperSku)
        coverSpreadWidth == d.finishedWidth * 2 + spineWidth(d)
        coverSpreadHeight == d.finishedHeight
    IN IF d.hasCover /\ coverPaper # NoPaper
       THEN IF calculateImposition(coverPaper.parentWidth, coverPaper.parentHeight,
                                   coverSpreadWidth, coverSpreadHeight) >= 1
            THEN 1 ELSE 0
       ELSE 0

\* CostError without the check of the cover spread.
CostError_NoCoverCheck(d) ==
    IF d.bindingMethod = "saddleStitch" /\ totalInteriorPages(d) > 0
       /\ totalInteriorPages(d) % 4 # 0
    THEN "Saddle stitch requires the total interior page count to be a multiple of 4."
    ELSE IF FindPaper(d.bwPaperSku) # NoPaper /\ bwImposition(d) = 0 /\ d.bwPages > 0
    THEN "Finished size does not fit on the B/W interior paper."
    ELSE IF FindPaper(d.colorPaperSku) # NoPaper /\ colorImposition(d) = 0
            /\ d.colorPages > 0
    THEN "Finished size does not fit on the Color interior paper."
    ELSE NoCostError

\* The error calculateCosts returns an empty breakdown with, if any.
CostError(d) ==
    IF d.bindingMethod = "saddleStitch" /\ totalInteriorPages(d) > 0
       /\ totalInteriorPages(d) % 4 # 0
    THEN "Saddle stitch requires the total interior page count to be a multiple of 4."
    ELSE IF FindPaper(d.bwPaperSku) # NoPaper /\ bwImposition(d) = 0 /\ d.bwPages > 0
    THEN "Finished size does not fit on the B/W interior paper."
    ELSE IF FindPaper(d.colorPaperSku) # NoPaper /\ colorImposition(d) = 0
            /\ d.colorPages > 0
    THEN "Finished size does not fit on the Color interior paper."
    ELSE IF d.hasCover /\ FindPaper(d.coverPaperSku) # NoPaper /\ coverImposition(d) = 0
    THEN "Full cover spread (including spine) does not fit on the selected cover paper."
    ELSE NoCostError

\* Math.ceil(sheets * spoilageMultiplier)
WithSpoilage(sheets, d) == CeilDiv(sheets * spoilageMultiplier(d), 100)

\* Area a x b in thousandths of a square inch.
AreaSqIn(a, b) == ((a \div 254) * (b \div 254)) \div 1000

\* area * SQ_INCH_TO_SQ_METER * gsm, in thousandths of a gram.
AreaWeightGrams(area, gsm) ==
    (((area * gsm) \div 10000) * SQ_INCH_TO_SQ_METER) \div 10000

calculateSingleBookWeightLbs(d, bwPaper, colorPaper, coverPaper, spine) ==
    LET sheetAreaSqIn == AreaSqIn(d.finishedWidth, d.finishedHeight)
        bwGrams ==
            IF bwPaper # NoPaper /\ d.bwPages > 0
            THEN (d.bwPages * AreaWeightGrams(sheetAreaSqIn, bwPaper.gsm)) \div 2
            ELSE 0
        colorGrams ==
            IF colorPaper # NoPaper /\ d.colorPages > 0
            THEN (d.colorPages * AreaWeightGrams(sheetAreaSqIn, colorPaper.gsm)) \div 2
            ELSE 0
        coverGrams ==
            IF d.hasCover /\ coverPaper # NoPaper
            THEN AreaWeightGrams(AreaSqIn(d.finishedWidth * 2 + spine, d.finishedHeight),
                                 coverPaper.gsm)
            ELSE 0
        totalWeightGrams == bwGrams + colorGrams + coverGrams
    IN ((totalWeightGrams \div 100) * GRAMS_TO_LBS) \div 1000000

\* amount * percent / 100 without an intermediate beyond 2^31.
PercentOf(amount, percent) ==
    (amount \div 100) * percent + ((amount % 100) * percent) \div 100

\* bwPressSheets, colorPressSheets and coverPressSheets.
pressSheets(d) ==
    [bw |-> WithSpoilage(IF bwImposition(d) > 0
                         THEN CeilDiv(d.quantity * CeilDiv(Clamped(d.bwPages), 2),
                                      bwImposition(d))
                         ELSE 0, d),
     color |-> WithSpoilage(IF colorImposition(d) > 0
                            THEN CeilDiv(d.quantity * CeilDiv(Clamped(d.colorPages), 2),
                                         colorImposition(d))
                            ELSE 0, d),
     cover |-> IF d.hasCover
               THEN WithSpoilage(IF coverImposition(d) > 0
                                 THEN CeilDiv(d.quantity, coverImposition(d)) ELSE 0, d)
               ELSE 0]

\* laborTimeBreakdown and totalTimeMins, for the press sheets in sheets.
laborTimes(d, sheets) ==
    LET quantity == d.quantity
        coverPaper == FindPaper(d.coverPaperSku)
        printingTimeMins ==
            (sheets.bw + sheets.color + sheets.cover)
            * (TimeUnitsPerMinute \div PRINTING_SPEED_SPM)
        \* sheetLengthMeters = parentHeight * 0.0254: a unit of length of the
        \* sheet takes 15 / LAMINATING_SPEED_MPM / 2000 unit of time.
        laminatingTimeMins ==
            IF d.hasCover /\ d.laminationType # "none" /\ coverPaper # NoPaper
               /\ sheets.cover > 0
            THEN sheets.cover
                 * ((coverPaper.parentHeight * (15 \div LAMINATING_SPEED_MPM)) \div 2000)
            ELSE 0
        binds == quantity > 0 /\ d.bindingMethod # "none"
        bindingSetupMins ==
            IF binds /\ d.bindingMethod = "perfectBound" THEN PERFECT_BINDER_SETUP_MINS
            ELSE IF binds /\ d.bindingMethod = "saddleStitch"
                 THEN SADDLE_STITCHER_SETUP_MINS
            ELSE 0
        booksPerHour ==
            IF d.bindingMethod = "perfectBound" THEN PERFECT_BINDER_SPEED_BPH
            ELSE SADDLE_STITCHER_SPEED_BPH
        bindingTimeMins ==
            IF binds
            THEN quantity * ((60 * TimeUnitsPerMinute * BINDING_INEFFICIENCY_FACTOR)
                             \div (100 * booksPerHour))
            ELSE 0
        trimmingTimeMins ==
            IF quantity > 0
            THEN (TRIMMING_SETUP_MINS
                  + CeilDiv(quantity, TRIMMING_BOOKS_PER_CYCLE) * TRIMMING_CYCLE_TIME_MINS)
                 * TimeUnitsPerMinute
            ELSE 0
        setupTimeMins == (BASE_PREP_TIME_MINS + bindingSetupMins) * TimeUnitsPerMinute
        totalProductionTimeMins ==
            setupTimeMins + printingTimeMins + laminatingTimeMins + bindingTimeMins
            + trimmingTimeMins
        wastageTimeMins == (totalProductionTimeMins * WASTAGE_FACTOR) \div 100
    IN [printingTimeMins |-> printingTimeMins,
        laminatingTimeMins |-> laminatingTimeMins,
        bindingTimeMins |-> bindingTimeMins,
        setupTimeMins |-> setupTimeMins,
        trimmingTimeMins |-> trimmingTimeMins,
        wastageTimeMins |-> wastageTimeMins,
        totalTimeMins |-> totalProductionTimeMins + wastageTimeMins]

\* The breakdown calculateCosts returns, for the press sheets, the times and
\* the result of calculateShipping computed on the way.
Breakdown(d, sheets, times, shipping) ==
    LET bwPaper == FindPaper(d.bwPaperSku)
        colorPaper == FindPaper(d.colorPaperSku)
        coverPaper == FindPaper(d.coverPaperSku)
        quantity == d.quantity
        bwPaperCost == IF bwPaper # NoPaper THEN sheets.bw * bwPaper.costPerSheet ELSE 0
        bwClicks == sheets.bw * 2
        colorPaperCost ==
            IF colorPaper # NoPaper THEN sheets.color * colorPaper.costPerSheet ELSE 0
        colorClicks == sheets.color * 2
        coverPaperCost ==
            IF d.hasCover /\ coverPaper # NoPaper
            THEN sheets.cover * coverPaper.costPerSheet ELSE 0
        coverClickRate ==
            IF d.coverPrintColor = "COLOR" THEN COLOR_CLICK_COST ELSE BW_CLICK_COST
        coverClicks ==
            IF d.hasCover
            THEN sheets.cover * (IF d.coverPrintsOnBothSides THEN 2 ELSE 1)
            ELSE 0
        laminationCost ==
            IF d.hasCover /\ d.laminationType # "none" /\ quantity > 0
            THEN (IF d.laminationType = "gloss"
                  THEN GLOSS_LAMINATE_COST_PER_COVER
                  ELSE MATTE_LAMINATE_COST_PER_COVER) * quantity
            ELSE 0
        \* productionTimeHours * laborRate: a unit of time at a dollar an
        \* hour costs 1/45 unit of money.
        laborCost ==
            (times.totalTimeMins \div 45) * d.laborRate
            + ((times.totalTimeMins % 45) * d.laborRate) \div 45
        subtotal ==
            (bwPaperCost + colorPaperCost + coverPaperCost)
            + (bwClicks * BW_CLICK_COST + colorClicks * COLOR_CLICK_COST
               + coverClicks * coverClickRate)
            + laminationCost + laborCost
        markupAmount == PercentOf(subtotal, d.markupPercent)
        totalCost == subtotal + markupAmount + shipping.shippingCost
    IN [error |-> NoCostError,
        bwPaperCost |-> bwPaperCost, colorPaperCost |-> colorPaperCost,
        coverPaperCost |-> coverPaperCost,
        bwClickCost |-> bwClicks * BW_CLICK_COST,
        colorClickCost |-> colorClicks * COLOR_CLICK_COST,
        coverClickCost |-> coverClicks * coverClickRate,
        laminationCost |-> laminationCost, laborCost |-> laborCost,
        shippingCost |-> shipping.shippingCost, subtotal |-> subtotal,
        markupAmount |-> markupAmount, totalCost |-> totalCost,
        pricePerUnit |-> IF quantity > 0 THEN totalCost \div quantity ELSE 0,
        bwPressSheets |-> sheets.bw, colorPressSheets |-> sheets.color,
        coverPressSheets |-> sheets.cover,
        bwImposition |-> bwImposition(d), colorImposition |-> colorImposition(d),
        coverImposition |-> coverImposition(d),
        totalClicks |-> bwClicks + colorClicks + coverClicks,
        productionTimeHours |-> times.totalTimeMins \div 60,
        laborTimeBreakdown |->
            [printingTimeMins |-> times.printingTimeMins,
             laminatingTimeMins |-> times.laminatingTimeMins,
             bindingTimeMins |-> times.bindingTimeMins,
             setupTimeMins |-> times.setupTimeMins,
             trimmingTimeMins |-> times.trimmingTimeMins,
             wastageTimeMins |-> times.wastageTimeMins],
        shippingBreakdown |-> shipping.breakdown]

\* calculateCosts(details) past its error returns.
CostsOf(d) ==
    Breakdown(d, pressSheets(d), laborTimes(d, pressSheets(d)),
              IF d.calculateShipping
              THEN calculateShipping(
                       [quantity |-> d.quantity,
                        bookWidth |-> d.finishedWidth,
                        bookLength |-> d.finishedHeight,
                        bookSpine |-> spineWidth(d),
                        bookWeightLbs |->
                            calculateSingleBookWeightLbs(
                                d, FindPaper(d.bwPaperSku), FindPaper(d.colorPaperSku),
                                FindPaper(d.coverPaperSku), spineWidth(d)),
                        overrideBoxName |-> d.overrideShippingBoxName])
              ELSE [shippingCost |-> 0, breakdown |-> NoShippingBreakdown])

calculateCosts(d) ==
    IF CostError(d) # NoCostError
    THEN createEmptyCostBreakdown(CostError(d))
    ELSE CostsOf(d)

\* initialJobDetails of the calculator: no paper is selected yet (a null
\* SKU, which no stock of the catalog carries).
initialJobDetails ==
    [quantity |-> 100, finishedWidth |-> Inches(550), finishedHeight |-> Inches(850),
     bwPages |-> 20, bwPaperSku |-> "null",
     colorPages |-> 0, colorPaperSku |-> "null",
     hasCover |-> TRUE, coverPaperSku |-> "null", coverPrintColor |-> "COLOR",
     coverPrintsOnBothSides |-> FALSE, laminationType |-> "gloss",
     bindingMethod |-> "perfectBound",
     laborRate |-> 50, markupPercent |-> 35, spoilagePercent |-> 5,
     calculateShipping |-> TRUE, overrideShippingBoxName |-> NoOverride]

\* The jobs calculateCosts is called with.
JobQuantities == {0, 1, 30}
BwPageCounts == 0..MaxInteriorPages
ColorPageCounts == {0, 2}
\* Half letter, letter, a size whose cover spread is as wide as the cover
\* sheet is long, and a size larger than every parent sheet.
FinishedSizes ==
    { <<Inches(550), Inches(850)>>, <<Inches(850), Inches(1100)>>,
      <<Inches(950), Inches(1200)>>, <<Inches(1400), Inches(2000)>> }
\* A SKU no stock of the catalog carries.
MissingSku == "NOT-IN-CATALOG"
InteriorPapers ==
    { <<TextSku, GlossSku>>, <<MissingSku, GlossSku>>, <<TextSku, MissingSku>> }
Covers ==
    { [hasCover |-> FALSE, sku |-> CoverSku, color |-> "COLOR", both |-> FALSE,
       lamination |-> "none"],
      [hasCover |-> TRUE, sku |-> CoverSku, color |-> "COLOR", both |-> FALSE,
       lamination |-> "gloss"],
      [hasCover |-> TRUE, sku |-> CoverSku, color |-> "BW", both |-> TRUE,
       lamination |-> "matte"],
      [hasCover |-> TRUE, sku |-> MissingSku, color |-> "COLOR", both |-> FALSE,
       lamination |-> "gloss"] }
BindingMethods == {"perfectBound", "saddleStitch", "none"}
LaborRates == {0, 50, 80}
MarkupPercents == {0, 35, 100}
SpoilagePercents == {0, 5, 50}
Rates == { <<50, 35, 5>>, <<0, 0, 0>>, <<80, 100, 50>> }
ShippingChoices == { <<FALSE, NoOverride>>, <<TRUE, NoOverride>>, <<TRUE, SmallBoxName>> }

Jobs ==
    { [quantity |-> q, finishedWidth |-> size[1], finishedHeight |-> size[2],
       bwPages |-> bw, bwPaperSku |-> papers[1],
       colorPages |-> col, colorPaperSku |-> papers[2],
       hasCover |-> cover.hasCover, coverPaperSku |-> cover.sku,
       coverPrintColor |-> cover.color, coverPrintsOnBothSides |-> cover.both,
       laminationType |-> cover.lamination, bindingMethod |-> binding,
       laborRate |-> rates[1], markupPercent |-> rates[2],
       spoilagePercent |-> rates[3],
       calculateShipping |-> ship[1], overrideShippingBoxName |-> ship[2]] :
      q \in JobQuantities, size \in FinishedSizes, bw \in BwPageCounts,
      col \in ColorPageCounts, papers \in InteriorPapers, cover \in Covers,
      binding \in BindingMethods, rates \in Rates, ship \in ShippingChoices }

\* The arguments calculateShipping is called with.
Shipments ==
    [quantity : {0, 1, 38, 39, 500},
     bookWidth : {Inches(550), Inches(850), Inches(1300)},
     bookLength : {Inches(850), Inches(1100)},
     bookSpine : {0, Inches(25), Inches(500)},
     bookWeightLbs : {0, 500, 600, 41000},
     overrideBoxName : {NoOverride, SmallBoxName, MultiDepthBoxName,
                        MultiDepthBoxName \o " (6\")"}]

NoShippingResult == [shippingCost |-> 0, breakdown |-> NoShippingBreakdown]

\* usePdfImposition as mounted: no output URL; the effect with no
\* dependencies has read the ref, which is null.
UrlIdle ==
    /\ outputPdfUrl = 0
    /\ currentOutputUrlRef = 0
    /\ urlToRevokeOnUnmount = 0
    /\ urlsCreated = 0
    /\ revokedUrls = {}
    /\ imposeMounted = TRUE

\* No pure function is being called on its own.
NoCall == [name |-> "none"]

CallIdle ==
    /\ call = NoCall
    /\ result = NoCall

\* usePdfInfo right after the first render without a file: the effect took
\* its early exit and cleared the state.
PdfInfoIdle ==
    /\ inputFile = 0
    /\ pdfDocProxy = 0
    /\ pdfInfoState = [pdfInfo |-> FALSE, isLoading |-> FALSE, error |-> FALSE]
    /\ effectRuns = <<>>
    /\ loadingTaskRef = 0
    /\ destroyedDocs = {}
    /\ hookMounted = TRUE

\* The Map of pageRenderCacheRef without an entry.
EmptyCache == [p \in {} |-> 0]

\* The preview as mounted without a document: empty refs, nothing in flight.
PreviewIdle ==
    /\ previewDoc = 0
    /\ pageRenderCacheRef = EmptyCache
    /\ pageRenderLruRef = <<>>
    /\ pinnedPagesRef = {}
    /\ pageRenders = {}

\* The preview's position as mounted: the App's default settings, the
\* front of sheet 0, no sheets.
NavIdle ==
    /\ previewProps = [impositionType |-> "stack", propColumns |-> 1,
                       propRows |-> 1, isDuplex |-> FALSE]
    /\ currentPhysicalSheet0Based = 0
    /\ currentSideIsFront = TRUE
    /\ totalPhysicalSheetsPreview = 0

\* Nothing but imposePdf, the App and the estimator is running.
OthersIdle ==
    /\ CallIdle
    /\ PdfInfoIdle
    /\ PreviewIdle
    /\ NavIdle

\* No call of the estimator is under way.
EstimatorIdle ==
    /\ estimatorPc = "idle"
    /\ details = initialJobDetails
    /\ costBreakdown = createEmptyCostBreakdown(NoCostError)
    /\ shipment = [quantity |-> 0, bookWidth |-> 0, bookLength |-> 0, bookSpine |-> 0,
                   bookWeightLbs |-> 0, overrideBoxName |-> NoOverride]
    /\ shippingResult = NoShippingResult

\* ------------------------------------------------------------------ Init
SmallParams ==
    [inputFile : {TRUE},
     pageWidth : ReferencePageWidths,
     pageHeight : ReferencePageHeights,
     horizontalGutter : HorizontalGutters,
     verticalGutter : VerticalGutters,
     bleed : Bleeds,
     numInputPages : 0..MaxPages,
     columns : 1..MaxColumns,
     rows : 1..MaxRows,
     isDuplex : BOOLEAN,
     isLargeFile : BOOLEAN,
     impositionType : ImpositionTypes,
     sheetOrientation : SheetOrientations,
     rowOffsetType : RowOffsetTypes,
     readingDirection : {"ltr"}]

LargeParams ==
    [inputFile : {TRUE},
     pageWidth : ReferencePageWidths,
     pageHeight : ReferencePageHeights,
     horizontalGutter : {0},
     verticalGutter : {0},
     bleed : {0},
     numInputPages : LargePageCounts,
     columns : {1},
     rows : {1},
     isDuplex : BOOLEAN,
     isLargeFile : BOOLEAN,
     impositionType : ImpositionTypes,
     sheetOrientation : {"auto"},
     rowOffsetType : {"none"},
     readingDirection : {"ltr"}]

NoFileParams ==
    [inputFile : {FALSE},
     pageWidth : ReferencePageWidths,
     pageHeight : ReferencePageHeights,
     horizontalGutter : {0},
     verticalGutter : {0},
     bleed : {0},
     numInputPages : {0},
     columns : {1},
     rows : {1},
     isDuplex : {FALSE},
     isLargeFile : {FALSE},
     impositionType : {"stack"},
     sheetOrientation : {"auto"},
     rowOffsetType : {"none"},
     readingDirection : {"ltr"}]

\* Right-to-left jobs: every mode, grid, duplex setting and page count.
RtlParams ==
    [inputFile : {TRUE},
     pageWidth : ReferencePageWidths,
     pageHeight : ReferencePageHeights,
     horizontalGutter : {0},
     verticalGutter : {0},
     bleed : {0},
     numInputPages : 0..MaxPages,
     columns : 1..MaxColumns,
     rows : 1..MaxRows,
     isDuplex : BOOLEAN,
     isLargeFile : BOOLEAN,
     impositionType : ImpositionTypes,
     sheetOrientation : {"auto"},
     rowOffsetType : {"none"},
     readingDirection : {"rtl"}]

Init ==
    /\ params \in SmallParams \cup LargeParams \cup NoFileParams \cup RtlParams
    /\ pc = "idle"
    /\ isLoading = FALSE
    /\ error = "none"
    /\ chunkIndex = 0
    /\ physicalSheetIndex = 0
    /\ outputPdfDoc = NoDoc
    /\ downloads = <<>>
    /\ cancelRequested = FALSE
    /\ UrlIdle
    /\ EstimatorIdle
    /\ OthersIdle

\* --------------------------------------------------------------- actions
\* clearOutput as far as the URLs go: the URL the ref holds is revoked, the
\* ref and the state are set to null.
ClearedUrls ==
    /\ revokedUrls' = IF currentOutputUrlRef # 0
                         THEN revokedUrls \cup {currentOutputUrlRef}
                       ELSE revokedUrls
    /\ currentOutputUrlRef' = 0
    /\ outputPdfUrl' = 0
    /\ UNCHANGED <<urlToRevokeOnUnmount, urlsCreated, imposeMounted>>

\* imposePdf is called: the early return without a file, else the resets,
\* clearOutput among them.
ImposePdf ==
    /\ pc = "idle"
    /\ IF ~params.inputFile
         THEN /\ error' = "NoFile"
              /\ UNCHANGED <<pc, isLoading>>
              /\ UNCHANGED urlVars
         ELSE /\ isLoading' = TRUE
              /\ error' = "none"
              /\ pc' = "load"
              /\ ClearedUrls
    /\ UNCHANGED <<estimatorVars, otherVars>>
    /\ UNCHANGED <<params, chunkIndex, physicalSheetIndex, outputPdfDoc,
                   downloads, cancelRequested>>

\* PDFDocument.load and the page-count check.
LoadInput ==
    /\ pc = "load"
    /\ IF numInputPages = 0
         THEN /\ pc' = "error"
              /\ error' = "NoPages"
              /\ isLoading' = FALSE
         ELSE /\ pc' = "plan"
              /\ UNCHANGED <<error, isLoading>>
    /\ UNCHANGED <<estimatorVars, otherVars, urlVars>>
    /\ UNCHANGED <<params, chunkIndex, physicalSheetIndex, outputPdfDoc,
                   downloads, cancelRequested>>

\* Steps 1-3: sheet count, chunking, orientation and slot positions; the
\* two throws of the plan end the run in the catch block.
Plan ==
    /\ pc = "plan"
    /\ IF PlanError # "none"
         THEN /\ pc' = "error"
              /\ error' = PlanError
              /\ isLoading' = FALSE
              /\ UNCHANGED chunkIndex
         ELSE /\ pc' = "chunk"
              /\ chunkIndex' = 0
              /\ UNCHANGED <<error, isLoading>>
    /\ UNCHANGED <<estimatorVars, otherVars, urlVars>>
    /\ UNCHANGED <<params, physicalSheetIndex, outputPdfDoc, downloads,
                   cancelRequested>>

\* Head of the chunk loop: PDFDocument.create for the next chunk.
CreateChunk ==
    /\ pc = "chunk"
    /\ chunkIndex < totalChunks
    /\ outputPdfDoc' = [open |-> TRUE, pages |-> <<>>]
    /\ physicalSheetIndex' = chunkStartSheet
    /\ pc' = "sheet"
    /\ UNCHANGED <<estimatorVars, otherVars, urlVars>>
    /\ UNCHANGED <<params, isLoading, error, chunkIndex, downloads, cancelRequested>>

\* The front page of a sheet: addPage and the slot loop.
RenderFront ==
    /\ pc = "sheet"
    /\ physicalSheetIndex < chunkEndSheet
    /\ outputPdfDoc' =
         [outputPdfDoc EXCEPT !.pages =
            Append(@, [sheet |-> physicalSheetIndex, side |-> "F",
                       draws |-> DrawsOf(pagesForFront(physicalSheetIndex), TRUE)])]
    /\ IF impositionType = "booklet" \/ isDuplex
         THEN /\ pc' = "back"
              /\ UNCHANGED physicalSheetIndex
         ELSE /\ pc' = "sheet"
              /\ physicalSheetIndex' = physicalSheetIndex + 1
    /\ UNCHANGED <<estimatorVars, otherVars, urlVars>>
    /\ UNCHANGED <<params, isLoading, error, chunkIndex, downloads, cancelRequested>>

\* The back page of a sheet (booklet always, else when duplex).
RenderBack ==
    /\ pc = "back"
    /\ outputPdfDoc' =
         [outputPdfDoc EXCEPT !.pages =
            Append(@, [sheet |-> physicalSheetIndex, side |-> "B",
                       draws |-> DrawsOf(pagesForBackToRender(physicalSheetIndex), FALSE)])]
    /\ physicalSheetIndex' = physicalSheetIndex + 1
    /\ pc' = "sheet"
    /\ UNCHANGED <<estimatorVars, otherVars, urlVars>>
    /\ UNCHANGED <<params, isLoading, error, chunkIndex, downloads, cancelRequested>>

\* 5. Save and download the current chunk, then the next chunk.
SaveChunk ==
    /\ pc = "sheet"
    /\ physicalSheetIndex >= chunkEndSheet
    /\ downloads' = Append(downloads,
                           [name |-> downloadName,
                            chunked |-> needsChunking,
                            part |-> chunkIndex + 1,
                            of |-> totalChunks,
                            pages |-> outputPdfDoc.pages])
    /\ outputPdfDoc' = NoDoc
    /\ chunkIndex' = chunkIndex + 1
    /\ pc' = "chunk"
    /\ urlsCreated' = urlsCreated + 1
    /\ IF ~needsChunking
         THEN /\ outputPdfUrl' = IF imposeMounted THEN urlsCreated + 1
                                 ELSE outputPdfUrl
              /\ currentOutputUrlRef' = urlsCreated + 1
              /\ UNCHANGED revokedUrls
         ELSE /\ revokedUrls' = revokedUrls \cup {urlsCreated + 1}
              /\ UNCHANGED <<outputPdfUrl, currentOutputUrlRef>>
    /\ UNCHANGED <<urlToRevokeOnUnmount, imposeMounted>>
    /\ UNCHANGED <<estimatorVars, otherVars>>
    /\ UNCHANGED <<params, isLoading, error, physicalSheetIndex, cancelRequested>>

\* The chunk loop is over: finally clears the loading flag.
Finish ==
    /\ pc = "chunk"
    /\ chunkIndex >= totalChunks
    /\ pc' = "done"
    /\ isLoading' = FALSE
    /\ UNCHANGED <<estimatorVars, otherVars, urlVars>>
    /\ UNCHANGED <<params, error, chunkIndex, physicalSheetIndex, outputPdfDoc,
                   downloads, cancelRequested>>

\* Fail with the catch inside the chunk loop: the run goes on with the
\* next chunk.
Fail_ContinuesWithNextChunk ==
    /\ \/ pc \in {"load", "sheet", "back"}
       \/ pc = "chunk" /\ chunkIndex < totalChunks
    /\ pc' = "chunk"
    /\ chunkIndex' = chunkIndex + 1
    /\ error' = "External"
    /\ outputPdfDoc' = NoDoc
    /\ UNCHANGED <<estimatorVars, otherVars, urlVars>>
    /\ UNCHANGED <<params, isLoading, physicalSheetIndex, downloads, cancelRequested>>

\* An awaited call of the PDF library rejects (load, create, embedFont,
\* embedPage, embedPng, save): the catch block reports it, finally clears
\* the loading flag; the document of the chunk goes out of scope.
Fail ==
    /\ \/ pc \in {"load", "sheet", "back"}
       \/ pc = "chunk" /\ chunkIndex < totalChunks
    /\ pc' = "error"
    /\ error' = "External"
    /\ isLoading' = FALSE
    /\ outputPdfDoc' = NoDoc
    /\ UNCHANGED <<estimatorVars, otherVars, urlVars>>
    /\ UNCHANGED <<params, chunkIndex, physicalSheetIndex, downloads, cancelRequested>>

\* The caller asks the running job to stop.
RequestCancel ==
    /\ pc \in {"load", "plan", "chunk", "sheet", "back"}
    /\ ~cancelRequested
    /\ cancelRequested' = TRUE
    /\ UNCHANGED <<estimatorVars, otherVars, urlVars>>
    /\ UNCHANGED <<params, pc, isLoading, error, chunkIndex, physicalSheetIndex,
                   outputPdfDoc, downloads>>

Next ==
    \/ ImposePdf
    \/ LoadInput
    \/ Plan
    \/ CreateChunk
    \/ RenderFront
    \/ RenderBack
    \/ SaveChunk
    \/ Finish
    \/ Fail
    \/ RequestCancel

Spec == Init /\ [][Next]_vars

\* ------------------------------------------- the object URLs of the output
\* clearOutput, called by the App when a file is chosen or removed, and
\* when a setting changes with an output shown and no run loading.
ClearOutput ==
    /\ imposeMounted
    /\ ~isLoading
    /\ outputPdfUrl # 0
    /\ ClearedUrls
    /\ error' = "none"
    /\ UNCHANGED <<estimatorVars, otherVars>>
    /\ UNCHANGED <<params, pc, isLoading, chunkIndex, physicalSheetIndex,
                   outputPdfDoc, downloads, cancelRequested>>

\* The component unmounts: the cleanup of the effect that ran at mount
\* revokes the URL that effect read from the ref.
UnmountImposition ==
    /\ imposeMounted
    /\ imposeMounted' = FALSE
    /\ revokedUrls' = IF urlToRevokeOnUnmount # 0
                         THEN revokedUrls \cup {urlToRevokeOnUnmount}
                       ELSE revokedUrls
    /\ UNCHANGED <<outputPdfUrl, currentOutputUrlRef, urlToRevokeOnUnmount,
                   urlsCreated>>
    /\ UNCHANGED <<estimatorVars, otherVars>>
    /\ UNCHANGED <<params, pc, isLoading, error, chunkIndex, physicalSheetIndex,
                   outputPdfDoc, downloads, cancelRequested>>

\* imposePdf has returned and the mounted hook waits for the next call; the
\* record of the downloads starts again.
ReturnToIdle ==
    /\ pc \in {"done", "error"}
    /\ imposeMounted
    /\ urlsCreated < MaxObjectUrls
    /\ pc' = "idle"
    /\ chunkIndex' = 0
    /\ physicalSheetIndex' = 0
    /\ downloads' = <<>>
    /\ cancelRequested' = FALSE
    /\ UNCHANGED <<params, isLoading, error, outputPdfDoc>>
    /\ UNCHANGED <<estimatorVars, otherVars, urlVars>>

\* A file of 2 or of 51 pages, imposed one page to a sheet: one document
\* that is kept, one chunk, or two chunks.
UrlInit ==
    /\ params \in {p \in SmallParams \cup LargeParams :
                     /\ p.columns = 1 /\ p.rows = 1
                     /\ p.impositionType = "repeat"
                     /\ p.sheetOrientation = "auto"
                     /\ p.rowOffsetType = "none"
                     /\ p.horizontalGutter = 0 /\ p.verticalGutter = 0
                     /\ p.bleed = 0
                     /\ p.numInputPages \in {2, 51}}
    /\ pc = "idle"
    /\ isLoading = FALSE
    /\ error = "none"
    /\ chunkIndex = 0
    /\ physicalSheetIndex = 0
    /\ outputPdfDoc = NoDoc
    /\ downloads = <<>>
    /\ cancelRequested = FALSE
    /\ UrlIdle
    /\ EstimatorIdle
    /\ OthersIdle

UrlNext ==
    \/ ImposePdf
    \/ LoadInput
    \/ Plan
    \/ CreateChunk
    \/ RenderFront
    \/ RenderBack
    \/ SaveChunk
    \/ Finish
    \/ Fail
    \/ RequestCancel
    \/ ClearOutput
    \/ UnmountImposition
    \/ ReturnToIdle

UrlSpec == UrlInit /\ [][UrlNext]_vars

\* ------------------------------------------- the settings state of the App
\* The App keeps the settings in useState cells and builds the hook with
\* them on every render: params is that state.  The settings controls are
\* disabled while a run is loading, so the settings change in pc = "idle".

\* The ImpositionPreset records the preset list may hold: the list is what
\* localStorage holds under 'impositionPresets', parsed as stored.
Presets ==
    [columns : 1..MaxColumns,
     rows : 1..MaxRows,
     bleed : Bleeds,
     horizontalGutter : HorizontalGutters,
     verticalGutter : VerticalGutters,
     impositionType : ImpositionTypes,
     sheetOrientation : SheetOrientations,
     isDuplex : BOOLEAN,
     rowOffsetType : RowOffsetTypes]

\* useEffect(..., [impositionType]): after a render in which impositionType
\* has changed, booklet sets 2 columns, 1 row, duplex.
BookletEffect(old, new) ==
    IF new.impositionType # old.impositionType /\ new.impositionType = "booklet"
      THEN [new EXCEPT !.columns = 2, !.rows = 1, !.isDuplex = TRUE]
    ELSE new

isBookletMode == impositionType = "booklet"

\* The state after construction: the defaults, a file with pages chosen,
\* its first page 5 in wide or 18 in wide (wider than the sheet is long),
\* in quarter inches.
AppInit ==
    /\ \E w \in {20, 72} :
         params \in {[p EXCEPT !.pageWidth = w] : p \in {p \in SmallParams :
                      /\ p.columns = 1 /\ p.rows = 1 /\ ~p.isDuplex
                      /\ p.impositionType = "stack"
                      /\ p.sheetOrientation = "auto"
                      /\ p.rowOffsetType = "none"
                      /\ p.horizontalGutter = 0 /\ p.verticalGutter = 0
                      /\ p.bleed = 0
                      /\ ~p.isLargeFile
                      /\ p.numInputPages = MaxPages}}
    /\ pc = "idle"
    /\ isLoading = FALSE
    /\ error = "none"
    /\ chunkIndex = 0
    /\ physicalSheetIndex = 0
    /\ outputPdfDoc = NoDoc
    /\ downloads = <<>>
    /\ cancelRequested = FALSE
    /\ UrlIdle
    /\ EstimatorIdle
    /\ OthersIdle

\* The imposition type select.
SetImpositionType(t) ==
    /\ pc = "idle" /\ ~isLoading
    /\ params' = BookletEffect(params, [params EXCEPT !.impositionType = t])
    /\ UNCHANGED <<pc, isLoading, error, chunkIndex, physicalSheetIndex,
                   outputPdfDoc, downloads, cancelRequested>>
    /\ UNCHANGED <<estimatorVars, otherVars, urlVars>>

\* The duplex toggle, disabled in booklet mode.
SetIsDuplex(b) ==
    /\ pc = "idle" /\ ~isLoading /\ ~isBookletMode
    /\ params' = BookletEffect(params, [params EXCEPT !.isDuplex = b])
    /\ UNCHANGED <<pc, isLoading, error, chunkIndex, physicalSheetIndex,
                   outputPdfDoc, downloads, cancelRequested>>
    /\ UNCHANGED <<estimatorVars, otherVars, urlVars>>

\* The columns field, disabled in booklet mode: Math.max(1, Math.floor(v)).
SetColumns(c) ==
    /\ pc = "idle" /\ ~isLoading /\ ~isBookletMode
    /\ params' = BookletEffect(params, [params EXCEPT !.columns = c])
    /\ UNCHANGED <<pc, isLoading, error, chunkIndex, physicalSheetIndex,
                   outputPdfDoc, downloads, cancelRequested>>
    /\ UNCHANGED <<estimatorVars, otherVars, urlVars>>

\* The rows field, disabled in booklet mode.
SetRows(r) ==
    /\ pc = "idle" /\ ~isLoading /\ ~isBookletMode
    /\ params' = BookletEffect(params, [params EXCEPT !.rows = r])
    /\ UNCHANGED <<pc, isLoading, error, chunkIndex, physicalSheetIndex,
                   outputPdfDoc, downloads, cancelRequested>>
    /\ UNCHANGED <<estimatorVars, otherVars, urlVars>>

\* handleLoadPreset: every setting of the preset is set, then the effects
\* of the render run.
HandleLoadPreset(preset) ==
    /\ pc = "idle" /\ ~isLoading
    /\ params' = BookletEffect(params,
                    [params EXCEPT !.columns = preset.columns,
                                   !.rows = preset.rows,
                                   !.bleed = preset.bleed,
                                   !.horizontalGutter = preset.horizontalGutter,
                                   !.verticalGutter = preset.verticalGutter,
                                   !.impositionType = preset.impositionType,
                                   !.sheetOrientation = preset.sheetOrientation,
                                   !.isDuplex = preset.isDuplex,
                                   !.rowOffsetType = preset.rowOffsetType])
    /\ UNCHANGED <<pc, isLoading, error, chunkIndex, physicalSheetIndex,
                   outputPdfDoc, downloads, cancelRequested>>
    /\ UNCHANGED <<estimatorVars, otherVars, urlVars>>

\* How many items of itemDimension, gutter apart, fit in availableDimension.
calculateMaxUnits(availableDimension, itemDimension, gutter) ==
    IF itemDimension <= 0 THEN 1
    ELSE (availableDimension + gutter) \div (itemDimension + gutter)

\* The Max button of the columns ('width') or rows ('height') field,
\* disabled in booklet mode. The sheet is measured with its long side
\* across, swapped for portrait and for an auto orientation whose current
\* grid fits portrait only.
GetMaxUnitsForCurrentOrientation(dimension) ==
    LET contentW == (layoutCellWidth * columns)
                      + ((IF columns - 1 > 0 THEN columns - 1 ELSE 0) * horizontalGutterPoints)
        contentH == (layoutCellHeight * rows)
                      + ((IF rows - 1 > 0 THEN rows - 1 ELSE 0) * verticalGutterPoints)
        fitsLandscape == contentW <= paperLongSidePoints /\ contentH <= paperShortSidePoints
        fitsPortrait == contentW <= paperShortSidePoints /\ contentH <= paperLongSidePoints
        swap == \/ params.sheetOrientation = "portrait"
                \/ params.sheetOrientation = "auto" /\ ~fitsLandscape /\ fitsPortrait
        paperW == IF swap THEN paperShortSidePoints ELSE paperLongSidePoints
        paperH == IF swap THEN paperLongSidePoints ELSE paperShortSidePoints
    IN /\ pc = "idle" /\ ~isLoading /\ ~isBookletMode
       /\ params' = BookletEffect(params,
            IF dimension = "width"
              THEN [params EXCEPT !.columns =
                      calculateMaxUnits(paperW, layoutCellWidth, horizontalGutterPoints)]
            ELSE [params EXCEPT !.rows =
                      calculateMaxUnits(paperH, layoutCellHeight, verticalGutterPoints)])
       /\ UNCHANGED <<pc, isLoading, error, chunkIndex, physicalSheetIndex,
                      outputPdfDoc, downloads, cancelRequested>>
       /\ UNCHANGED <<estimatorVars, otherVars, urlVars>>

\* The Calculate Absolute Max Layout button, not rendered in booklet mode:
\* the better of the landscape and the portrait grid, set even when it is
\* empty.
HandleCalculateAbsoluteMax ==
    LET landscapeCols == calculateMaxUnits(paperLongSidePoints, layoutCellWidth, horizontalGutterPoints)
        landscapeRows == calculateMaxUnits(paperShortSidePoints, layoutCellHeight, verticalGutterPoints)
        portraitCols == calculateMaxUnits(paperShortSidePoints, layoutCellWidth, horizontalGutterPoints)
        portraitRows == calculateMaxUnits(paperLongSidePoints, layoutCellHeight, verticalGutterPoints)
        landscapeBest == landscapeCols * landscapeRows >= portraitCols * portraitRows
    IN /\ pc = "idle" /\ ~isLoading /\ ~isBookletMode
       /\ params' = BookletEffect(params,
            [params EXCEPT
               !.sheetOrientation = IF landscapeBest THEN "landscape" ELSE "portrait",
               !.columns = IF landscapeBest THEN landscapeCols ELSE portraitCols,
               !.rows = IF landscapeBest THEN landscapeRows ELSE portraitRows])
       /\ UNCHANGED <<pc, isLoading, error, chunkIndex, physicalSheetIndex,
                      outputPdfDoc, downloads, cancelRequested>>
       /\ UNCHANGED <<estimatorVars, otherVars, urlVars>>

AppNext ==
    \/ \E t \in ImpositionTypes : SetImpositionType(t)
    \/ \E b \in BOOLEAN : SetIsDuplex(b)
    \/ \E c \in 1..MaxColumns : SetColumns(c)
    \/ \E r \in 1..MaxRows : SetRows(r)
    \/ \E preset \in Presets : HandleLoadPreset(preset)
    \/ \E dimension \in {"width", "height"} : GetMaxUnitsForCurrentOrientation(dimension)
    \/ HandleCalculateAbsoluteMax

AppSpec == AppInit /\ [][AppNext]_vars

\* ------------------------------------------------ the estimator's calls
\* imposePdf is not running.
ImposeIdle ==
    /\ params = CHOOSE p \in SmallParams : TRUE
    /\ pc = "idle"
    /\ isLoading = FALSE
    /\ error = "none"
    /\ chunkIndex = 0
    /\ physicalSheetIndex = 0
    /\ outputPdfDoc = NoDoc
    /\ downloads = <<>>
    /\ cancelRequested = FALSE
    /\ UrlIdle

\* calculateCosts is called with a job.
CostInit ==
    /\ ImposeIdle
    /\ OthersIdle
    /\ estimatorPc = "costs"
    /\ details \in Jobs
    /\ costBreakdown = createEmptyCostBreakdown(NoCostError)
    /\ shipment = [quantity |-> 0, bookWidth |-> 0, bookLength |-> 0, bookSpine |-> 0,
                   bookWeightLbs |-> 0, overrideBoxName |-> NoOverride]
    /\ shippingResult = NoShippingResult

CalculateCosts ==
    /\ estimatorPc = "costs"
    /\ costBreakdown' = calculateCosts(details)
    /\ estimatorPc' = "returned"
    /\ UNCHANGED <<details, shipment, shippingResult>>
    /\ UNCHANGED <<imposeVars, otherVars>>

CostSpec == CostInit /\ [][CalculateCosts]_vars

\* calculateShipping is called on its own.
ShippingInit ==
    /\ ImposeIdle
    /\ OthersIdle
    /\ estimatorPc = "shipping"
    /\ shipment \in Shipments
    /\ shippingResult = NoShippingResult
    /\ details = initialJobDetails
    /\ costBreakdown = createEmptyCostBreakdown(NoCostError)

CalculateShipping ==
    /\ estimatorPc = "shipping"
    /\ shippingResult' = calculateShipping(shipment)
    /\ estimatorPc' = "returned"
    /\ UNCHANGED <<details, costBreakdown, shipment>>
    /\ UNCHANGED <<imposeVars, otherVars>>

ShippingSpec == ShippingInit /\ [][CalculateShipping]_vars

\* getCarrierCost is called for two total weights (thousandths of a pound):
\* zero, every tier boundary with its neighbours, and the linear tail.
CarrierWeights ==
    {0, 1, 999, 1000, 1001, 4999, 5000, 5001, 9999, 10000, 10001, 19999, 20000,
     20001, 29999, 30000, 30001, 39999, 40000, 40001, 49999, 50000, 50001,
     50002, 60000}

CarrierInit ==
    /\ ImposeIdle
    /\ EstimatorIdle
    /\ PdfInfoIdle
    /\ PreviewIdle
    /\ NavIdle
    /\ call \in [name : {"getCarrierCost"}, w1 : CarrierWeights, w2 : CarrierWeights]
    /\ result = NoCall

GetCarrierCost ==
    /\ call.name = "getCarrierCost"
    /\ result = NoCall
    /\ result' = [name |-> "getCarrierCost",
                  cost1 |-> getCarrierCost(call.w1),
                  cost2 |-> getCarrierCost(call.w2)]
    /\ UNCHANGED call
    /\ UNCHANGED <<imposeVars, estimatorVars, pdfInfoVars, previewVars, navVars>>

CarrierSpec == CarrierInit /\ [][GetCarrierCost]_vars

\* ------------------------------------------------ the book spine calculator
\* Lengths of the calculator are in ten-millionths of an inch; a quotient is
\* rounded to the nearest unit.
SpineUnitsPerInch == 10000 * 1000

RoundedQuotient(a, b) ==
    IF 2 * (a % b) >= b THEN (a \div b) + 1 ELSE a \div b

\* Printed pages per inch of stack, by interior paper type and weight.
INTERIOR_PAPER_PPI ==
    [t \in {"opaque", "gloss", "silk"} |->
       CASE t = "opaque" -> ("60" :> 500 @@ "80" :> 400 @@ "100" :> 330)
         [] t = "gloss" -> ("60" :> 540 @@ "80" :> 430 @@ "100" :> 360)
         [] OTHER -> ("60" :> 530 @@ "80" :> 420 @@ "100" :> 350)]

\* Caliper of one sheet of cover stock, by cover paper type and weight.
COVER_PAPER_THICKNESS ==
    [t \in {"silk", "gloss"} |->
       IF t = "silk" THEN ("100" :> 95000 @@ "111" :> 110000 @@ "130" :> 135000)
       ELSE ("100" :> 90000 @@ "111" :> 105000 @@ "130" :> 130000)]

NoDimensions == [name |-> "BookSpineCalculator", calculated |-> FALSE]

\* calculatedDimensions with the cover stock counted once, not front and back.
calculatedDimensions_OneCoverSheet(c) ==
    IF c.numInteriorPages <= 0 \/ c.finishedBookWidth <= 0 \/ c.finishedBookHeight <= 0
      THEN NoDimensions
    ELSE
      LET ppi == INTERIOR_PAPER_PPI[c.interiorPaperType][c.interiorPaperWeight]
          coverThickness == COVER_PAPER_THICKNESS[c.coverPaperType][c.coverPaperWeight]
          interiorBlockThickness ==
              RoundedQuotient(c.numInteriorPages * SpineUnitsPerInch, ppi)
      IN [name |-> "BookSpineCalculator", calculated |-> TRUE,
          spineWidthInches |-> interiorBlockThickness + coverThickness,
          interiorBlockThicknessInches |-> interiorBlockThickness,
          fullCoverWidthInches |->
              (2 * c.finishedBookWidth) + (interiorBlockThickness + coverThickness)
                + (2 * c.coverBleed),
          fullCoverHeightInches |-> c.finishedBookHeight + (2 * c.coverBleed),
          selectedInteriorPPI |-> ppi,
          selectedCoverThicknessInches |-> coverThickness]

\* The effect of BookSpineCalculator: the dimensions it sets for the form
\* values c, none when a count or a size is not positive. Every pair of
\* keys has an entry in the two tables, so the lookup never misses.
calculatedDimensions(c) ==
    IF c.numInteriorPages <= 0 \/ c.finishedBookWidth <= 0 \/ c.finishedBookHeight <= 0
      THEN NoDimensions
    ELSE
      LET ppi == INTERIOR_PAPER_PPI[c.interiorPaperType][c.interiorPaperWeight]
          coverThickness == COVER_PAPER_THICKNESS[c.coverPaperType][c.coverPaperWeight]
          interiorBlockThickness ==
              RoundedQuotient(c.numInteriorPages * SpineUnitsPerInch, ppi)
      IN [name |-> "BookSpineCalculator", calculated |-> TRUE,
          spineWidthInches |-> interiorBlockThickness + (coverThickness * 2),
          interiorBlockThicknessInches |-> interiorBlockThickness,
          fullCoverWidthInches |->
              (2 * c.finishedBookWidth) + (interiorBlockThickness + (coverThickness * 2))
                + (2 * c.coverBleed),
          fullCoverHeightInches |-> c.finishedBookHeight + (2 * c.coverBleed),
          selectedInteriorPPI |-> ppi,
          selectedCoverThicknessInches |-> coverThickness]

\* The form of the calculator: every paper key, page counts (none, odd,
\* the default 96, 200), trim sizes (none, 6 x 9 in, 8.5 x 11 in) and
\* bleeds (none, 0.125 in).
SpineInit ==
    /\ ImposeIdle
    /\ EstimatorIdle
    /\ PdfInfoIdle
    /\ PreviewIdle
    /\ NavIdle
    /\ call \in [name : {"BookSpineCalculator"},
                  interiorPaperType : DOMAIN INTERIOR_PAPER_PPI,
                  interiorPaperWeight : {"60", "80", "100"},
                  coverPaperType : DOMAIN COVER_PAPER_THICKNESS,
                  coverPaperWeight : {"100", "111", "130"},
                  numInteriorPages : {0, 1, 96, 200},
                  finishedBookWidth : {0, 6 * SpineUnitsPerInch, 85000000},
                  finishedBookHeight : {9 * SpineUnitsPerInch, 11 * SpineUnitsPerInch},
                  coverBleed : {0, 1250000}]
    /\ result = NoCall

CalculateDimensions ==
    /\ call.name = "BookSpineCalculator"
    /\ result = NoCall
    /\ result' = calculatedDimensions(call)
    /\ UNCHANGED call
    /\ UNCHANGED <<imposeVars, estimatorVars, pdfInfoVars, previewVars, navVars>>

SpineSpec == SpineInit /\ [][CalculateDimensions]_vars

\* ------------------------------------------------------------ usePdfInfo
\* The cleanup of the effect run in force (the latest, when it was started
\* for a file): isMounted = false, the loading task of the ref destroyed,
\* the document this run created destroyed.
CleanedRuns ==
    IF inputFile # 0
      THEN [effectRuns EXCEPT ![Len(effectRuns)].isMounted = FALSE]
    ELSE effectRuns

CleanedRef == IF inputFile # 0 THEN 0 ELSE loadingTaskRef

CleanedDestroyed ==
    IF inputFile # 0
      THEN destroyedDocs
             \cup (IF loadingTaskRef # 0 THEN {loadingTaskRef} ELSE {})
             \cup (IF effectRuns[Len(effectRuns)].createdDoc
                     THEN {Len(effectRuns)} ELSE {})
    ELSE destroyedDocs

\* The finally block of loadPdf in run e.
Finally(e, runs, state) ==
    /\ effectRuns' = [runs EXCEPT ![e].at = "done"]
    /\ pdfInfoState' = IF runs[e].isMounted THEN [state EXCEPT !.isLoading = FALSE]
                       ELSE state
    /\ loadingTaskRef' = 0

\* The inputFile prop changes: the cleanup of the previous run, then the
\* effect up to its first await.
ChangeInputFile(f) ==
    /\ hookMounted
    /\ f # inputFile
    /\ f # 0 => Len(effectRuns) < MaxEffectRuns
    /\ inputFile' = f
    /\ loadingTaskRef' = CleanedRef
    /\ destroyedDocs' = CleanedDestroyed
    /\ IF f = 0
         THEN /\ pdfDocProxy' = 0
              /\ pdfInfoState' = [pdfInfo |-> FALSE, isLoading |-> FALSE, error |-> FALSE]
              /\ effectRuns' = CleanedRuns
         ELSE /\ pdfInfoState' = [pdfInfoState EXCEPT !.isLoading = TRUE, !.error = FALSE]
              /\ effectRuns' = Append(CleanedRuns,
                                      [isMounted |-> TRUE, createdDoc |-> FALSE,
                                       at |-> "arrayBuffer"])
              /\ UNCHANGED pdfDocProxy
    /\ UNCHANGED hookMounted
    /\ UNCHANGED <<imposeVars, estimatorVars, callVars, previewVars, navVars>>

\* inputFile.arrayBuffer() resolves in run e: getDocument is started and
\* its task stored in the ref.
ArrayBufferResolves(e) ==
    /\ effectRuns[e].at = "arrayBuffer"
    /\ IF ~effectRuns[e].isMounted
         THEN Finally(e, effectRuns, pdfInfoState)
         ELSE /\ effectRuns' = [effectRuns EXCEPT ![e].at = "getDocument"]
              /\ loadingTaskRef' = e
              /\ UNCHANGED pdfInfoState
    /\ UNCHANGED <<inputFile, pdfDocProxy, destroyedDocs, hookMounted>>
    /\ UNCHANGED <<imposeVars, estimatorVars, callVars, previewVars, navVars>>

\* task.promise resolves with the document of run e.
GetDocumentResolves(e) ==
    /\ effectRuns[e].at = "getDocument"
    /\ IF ~effectRuns[e].isMounted
         THEN /\ destroyedDocs' = destroyedDocs \cup {e}
              /\ Finally(e, effectRuns, pdfInfoState)
         ELSE /\ effectRuns' = [effectRuns EXCEPT ![e].createdDoc = TRUE,
                                                  ![e].at = "getPage"]
              /\ UNCHANGED <<destroyedDocs, pdfInfoState, loadingTaskRef>>
    /\ UNCHANGED <<inputFile, pdfDocProxy, hookMounted>>
    /\ UNCHANGED <<imposeVars, estimatorVars, callVars, previewVars, navVars>>

\* getPage(1) resolves in run e: the document and its info become the state.
GetFirstPageResolves(e) ==
    /\ effectRuns[e].at = "getPage"
    /\ IF ~effectRuns[e].isMounted
         THEN /\ Finally(e, effectRuns, pdfInfoState)
              /\ UNCHANGED pdfDocProxy
         ELSE /\ pdfDocProxy' = e
              /\ Finally(e, effectRuns, [pdfInfoState EXCEPT !.pdfInfo = TRUE])
    /\ UNCHANGED <<inputFile, destroyedDocs, hookMounted>>
    /\ UNCHANGED <<imposeVars, estimatorVars, callVars, previewVars, navVars>>

\* One of the awaited calls of run e rejects: the catch block clears the
\* state of a mounted run.
LoadFails(e) ==
    /\ effectRuns[e].at \in {"arrayBuffer", "getDocument", "getPage"}
    /\ IF effectRuns[e].isMounted
         THEN /\ pdfDocProxy' = 0
              /\ Finally(e, effectRuns,
                         [pdfInfoState EXCEPT !.pdfInfo = FALSE, !.error = TRUE])
         ELSE /\ Finally(e, effectRuns, pdfInfoState)
              /\ UNCHANGED pdfDocProxy
    /\ UNCHANGED <<inputFile, destroyedDocs, hookMounted>>
    /\ UNCHANGED <<imposeVars, estimatorVars, callVars, previewVars, navVars>>

\* The component unmounts: the cleanup of the run in force.
Unmount ==
    /\ hookMounted
    /\ hookMounted' = FALSE
    /\ effectRuns' = CleanedRuns
    /\ loadingTaskRef' = CleanedRef
    /\ destroyedDocs' = CleanedDestroyed
    /\ UNCHANGED <<inputFile, pdfDocProxy, pdfInfoState>>
    /\ UNCHANGED <<imposeVars, estimatorVars, callVars, previewVars, navVars>>

PdfInfoInit ==
    /\ ImposeIdle
    /\ EstimatorIdle
    /\ OthersIdle

PdfInfoNext ==
    \/ \E f \in 0..2 : ChangeInputFile(f)
    \/ \E e \in 1..Len(effectRuns) : ArrayBufferResolves(e)
    \/ \E e \in 1..Len(effectRuns) : GetDocumentResolves(e)
    \/ \E e \in 1..Len(effectRuns) : GetFirstPageResolves(e)
    \/ \E e \in 1..Len(effectRuns) : LoadFails(e)
    \/ Unmount

PdfInfoSpec == PdfInfoInit /\ [][PdfInfoNext]_vars

\* ------------------------------------------------ the preview's page cache
\* Documents 1 and 2 have MaxPreviewPages pages, indices from 0. Document 3
\* is a long one, with more pages than the cache holds.
PreviewPages == 0..(MaxPreviewPages - 1)

\* numPages of document d, which is previewPageInfo?.pageCount ?? 0 of the
\* preview showing it.
pageCountOf(d) ==
    IF d = 0 THEN 0
    ELSE IF d = 3 THEN MAX_PAGE_CACHE_SIZE + MaxPreviewPages
    ELSE MaxPreviewPages

RemoveAt(s, i) == SubSeq(s, 1, i - 1) \o SubSeq(s, i + 1, Len(s))

\* Array.prototype.indexOf, 1-based; 0 stands for -1.
IndexOf(s, x) ==
    IF \E i \in 1..Len(s) : s[i] = x
    THEN CHOOSE i \in 1..Len(s) : s[i] = x /\ \A j \in 1..(i - 1) : s[j] # x
    ELSE 0

\* Map.prototype.set and Map.prototype.delete.
MapSet(cache, pageIndex, canvas) ==
    [p \in DOMAIN cache \cup {pageIndex} |->
        IF p = pageIndex THEN canvas ELSE cache[p]]

MapDelete(cache, pageIndex) ==
    [p \in DOMAIN cache \ {pageIndex} |-> cache[p]]

\* getCachedPage, cache hit: the page moves to the recent end of the LRU list.
TouchLru(lru, pageIndex) ==
    (IF IndexOf(lru, pageIndex) # 0
     THEN RemoveAt(lru, IndexOf(lru, pageIndex))
     ELSE lru) \o <<pageIndex>>

\* getCachedPage after its render: with a full cache the least recently used
\* unpinned page is evicted, or the oldest page when all are pinned.
EvictForInsert(cache, lru, pinned) ==
    IF Cardinality(DOMAIN cache) >= MAX_PAGE_CACHE_SIZE
    THEN IF \E i \in 1..Len(lru) : lru[i] \notin pinned
         THEN LET i == CHOOSE k \in 1..Len(lru) :
                           /\ lru[k] \notin pinned
                           /\ \A j \in 1..(k - 1) : lru[j] \in pinned
              IN [cache |-> MapDelete(cache, lru[i]),
                  lru |-> RemoveAt(lru, i),
                  pinned |-> pinned]
         ELSE IF Len(lru) > 0
              THEN [cache |-> MapDelete(cache, Head(lru)),
                    lru |-> Tail(lru),
                    pinned |-> pinned \ {Head(lru)}]
              ELSE [cache |-> cache, lru |-> lru, pinned |-> pinned]
    ELSE [cache |-> cache, lru |-> lru, pinned |-> pinned]

\* ... and the canvas is stored if the cache has room. The canvas is known
\* by the document it was rendered from.
InsertRendered(e, pageIndex, canvas) ==
    IF Cardinality(DOMAIN e.cache) < MAX_PAGE_CACHE_SIZE
    THEN [cache |-> MapSet(e.cache, pageIndex, canvas),
          lru |-> e.lru \o <<pageIndex>>,
          pinned |-> e.pinned]
    ELSE e

\* A getCachedPage call that missed the cache and awaits getPage.
NewRender(pageIndex, currentPdfJsDoc, isPinned) ==
    [pageIndex |-> pageIndex, currentPdfJsDoc |-> currentPdfJsDoc,
     at |-> "getPage", isPinned |-> isPinned]

\* proactivelyCachePages: the loop over the indices, s being the pinned set
\* and the calls in flight so far. getCachedPage is called for the pages that
\* are not cached; the else-if branch cannot be taken, the page having been
\* pinned just before.
RECURSIVE proactivelyCachePages(_, _, _, _)
proactivelyCachePages(pagesToCacheIndices, currentPdfJsDoc, isPinned, s) ==
    IF pagesToCacheIndices = <<>>
    THEN s
    ELSE LET pageIndex == Head(pagesToCacheIndices) IN
         proactivelyCachePages(Tail(pagesToCacheIndices), currentPdfJsDoc, isPinned,
            IF pageIndex < 0 \/ pageIndex >= pageCountOf(currentPdfJsDoc)
            THEN s
            ELSE [pinned |-> IF isPinned THEN s.pinned \cup {pageIndex}
                                         ELSE s.pinned,
                  renders |-> IF pageIndex \in DOMAIN pageRenderCacheRef
                              THEN s.renders
                              ELSE s.renders \cup
                                   {NewRender(pageIndex, currentPdfJsDoc, isPinned)}])

\* The first two and the last two pages of a document, each once.
PAGES_TO_PIN_AT_START == 2
PAGES_TO_PIN_AT_END == 2

pagesToPinIndices(numPages) ==
    LET atStart == [i \in 1..Min(PAGES_TO_PIN_AT_START, numPages) |-> i - 1]
        atEnd == [i \in 1..Min(PAGES_TO_PIN_AT_END, numPages) |-> numPages - i]
    IN atStart \o SelectSeq(atEnd, LAMBDA p : IndexOf(atStart, p) = 0)

\* The calls in flight stay within the bounds, and no two of them are alike.
RendersAllowed(before, after, pages) ==
    /\ Cardinality(after) =
           Cardinality(before)
           + Cardinality({i \in 1..Len(pages) :
                             pages[i] \notin DOMAIN pageRenderCacheRef})
    /\ Cardinality(after) <= MaxRenders
    /\ Len(pageRenderLruRef) + Cardinality(after)
         <= MaxRenders + pageCountOf(previewDoc)

\* The sheet count the preview's effect computes from the page count and
\* the settings; columns and rows are 2 and 1 in booklet mode.
totalSheetsOfPreview(numPages, p) ==
    LET cols == IF p.impositionType = "booklet" THEN 2 ELSE p.propColumns
        rws == IF p.impositionType = "booklet" THEN 1 ELSE p.propRows
        perSheet == cols * rws
        totalSheets ==
            CASE p.impositionType = "booklet" -> CeilDiv(numPages, 4)
              [] p.impositionType = "repeat" ->
                   IF p.isDuplex THEN CeilDiv(numPages, 2) ELSE numPages
              [] p.impositionType = "stack" ->
                   CeilDiv(numPages, perSheet * (IF p.isDuplex THEN 2 ELSE 1))
              [] OTHER ->
                   IF p.isDuplex THEN CeilDiv(CeilDiv(numPages, perSheet), 2)
                   ELSE CeilDiv(numPages, perSheet)
    IN IF numPages <= 0 THEN 0
       ELSE IF p.impositionType # "booklet" /\ perSheet = 0 THEN 0
       ELSE IF totalSheets > 1 THEN totalSheets ELSE 1

\* The prop pdfDocProxy changes: the effect clears the cache and the pins
\* and resets the view to the front of sheet 0, the next effect pins the
\* first and last pages of a new document, and the sheet count is computed
\* from the page count that comes with the document.
PreviewDocumentChanges(d) ==
    /\ d # previewDoc
    /\ LET cleared == [pinned |-> {}, renders |-> pageRenders]
           s == IF d # 0
                THEN proactivelyCachePages(pagesToPinIndices(pageCountOf(d)),
                                           d, TRUE, cleared)
                ELSE cleared
       IN /\ Cardinality(s.renders) <= MaxRenders
          /\ d # 0 => Cardinality(s.renders) =
                          Cardinality(pageRenders)
                          + Len(pagesToPinIndices(pageCountOf(d)))
          /\ pageRenders' = s.renders
          /\ pinnedPagesRef' = s.pinned
    /\ previewDoc' = d
    /\ pageRenderCacheRef' = EmptyCache
    /\ pageRenderLruRef' = <<>>
    /\ currentPhysicalSheet0Based' = 0
    /\ currentSideIsFront' = TRUE
    /\ totalPhysicalSheetsPreview' =
           totalSheetsOfPreview(pageCountOf(d), previewProps)
    /\ UNCHANGED previewProps
    /\ UNCHANGED <<imposeVars, estimatorVars, callVars, pdfInfoVars>>

\* The effect that caches the pages of the sheets around the current one.
CacheNearbySheets(pages) ==
    /\ previewDoc # 0
    /\ LET s == proactivelyCachePages(pages, previewDoc, FALSE,
                    [pinned |-> pinnedPagesRef, renders |-> pageRenders])
       IN /\ RendersAllowed(pageRenders, s.renders, pages)
          /\ pageRenders' = s.renders
          /\ pinnedPagesRef' = s.pinned
    /\ UNCHANGED <<previewDoc, pageRenderCacheRef, pageRenderLruRef>>
    /\ UNCHANGED <<imposeVars, estimatorVars, callVars, pdfInfoVars, navVars>>

\* getCachedPage called while a sheet or a thumbnail is drawn, for a page
\* of the document: a cache hit returns at once, a miss starts a render.
GetCachedPage(pageIndex) ==
    /\ pageIndex < pageCountOf(previewDoc)
    /\ IF pageIndex \in DOMAIN pageRenderCacheRef
       THEN /\ pageRenderLruRef' = TouchLru(pageRenderLruRef, pageIndex)
            /\ UNCHANGED pageRenders
       ELSE /\ previewDoc # 0
            /\ pageRenders' =
                   pageRenders \cup {NewRender(pageIndex, previewDoc, FALSE)}
            /\ RendersAllowed(pageRenders, pageRenders', <<pageIndex>>)
            /\ UNCHANGED pageRenderLruRef
    /\ UNCHANGED <<previewDoc, pageRenderCacheRef, pinnedPagesRef>>
    /\ UNCHANGED <<imposeVars, estimatorVars, callVars, pdfInfoVars, navVars>>

\* await currentPdfJsDoc.getPage(pageIndex + 1) resolves; the page is drawn
\* on an offscreen canvas.
GetPageResolves(r) ==
    /\ r \in pageRenders
    /\ r.at = "getPage"
    /\ [r EXCEPT !.at = "render"] \notin pageRenders
    /\ pageRenders' = (pageRenders \ {r}) \cup {[r EXCEPT !.at = "render"]}
    /\ UNCHANGED <<previewDoc, pageRenderCacheRef, pageRenderLruRef,
                   pinnedPagesRef>>
    /\ UNCHANGED <<imposeVars, estimatorVars, callVars, pdfInfoVars, navVars>>

\* await pdfPageProxy.render(...).promise resolves: the canvas goes into the
\* cache and the LRU list.
RenderResolves(r) ==
    /\ r \in pageRenders
    /\ r.at = "render"
    /\ LET e == InsertRendered(
                    EvictForInsert(pageRenderCacheRef, pageRenderLruRef,
                                   pinnedPagesRef),
                    r.pageIndex, r.currentPdfJsDoc)
       IN /\ pageRenderCacheRef' = e.cache
          /\ pageRenderLruRef' = e.lru
          /\ pinnedPagesRef' = e.pinned
    /\ pageRenders' = pageRenders \ {r}
    /\ UNCHANGED previewDoc
    /\ UNCHANGED <<imposeVars, estimatorVars, callVars, pdfInfoVars, navVars>>

\* getCachedPage returns null: getPage or the render rejected, the viewport
\* was empty or the canvas had no 2d context. proactivelyCachePages then
\* takes back the pin it gave.
GetCachedPageReturnsNull(r) ==
    /\ r \in pageRenders
    /\ pageRenders' = pageRenders \ {r}
    /\ pinnedPagesRef' = IF r.isPinned THEN pinnedPagesRef \ {r.pageIndex}
                                       ELSE pinnedPagesRef
    /\ UNCHANGED <<previewDoc, pageRenderCacheRef, pageRenderLruRef>>
    /\ UNCHANGED <<imposeVars, estimatorVars, callVars, pdfInfoVars, navVars>>

\* The page lists the nearby-sheets effect is tried with.
NearbyPageLists ==
    {pages \in UNION {[1..n -> PreviewPages] : n \in 1..MaxPreviewPages} :
        \A i, j \in 1..Len(pages) : pages[i] = pages[j] => i = j}

PreviewInit ==
    /\ ImposeIdle
    /\ EstimatorIdle
    /\ OthersIdle

PreviewNext ==
    \/ \E d \in 0..2 : PreviewDocumentChanges(d)
    \/ \E pages \in NearbyPageLists : CacheNearbySheets(pages)
    \/ \E pageIndex \in PreviewPages : GetCachedPage(pageIndex)
    \/ \E r \in pageRenders : GetPageResolves(r)
    \/ \E r \in pageRenders : RenderResolves(r)
    \/ \E r \in pageRenders : GetCachedPageReturnsNull(r)

PreviewSpec == PreviewInit /\ [][PreviewNext]_vars

\* The preview of the long document with a full cache: the four pinned pages
\* and the pages from 2 on are cached, the last unpinned pages are not. The
\* pinned pages were cached first or were used again since; the pinned
\* call for page 0 may still be waiting for its render, page 0 having been
\* cached by the call of the canvas drawing.
FullCachePages ==
    {p \in 0..(pageCountOf(3) - 1) :
        p < MAX_PAGE_CACHE_SIZE - PAGES_TO_PIN_AT_END
          \/ p >= pageCountOf(3) - PAGES_TO_PIN_AT_END}

FullCacheInit ==
    /\ ImposeIdle
    /\ EstimatorIdle
    /\ CallIdle
    /\ PdfInfoIdle
    /\ previewDoc = 3
    /\ pageRenderCacheRef = [p \in FullCachePages |-> 3]
    /\ \E pinnedFirst \in BOOLEAN :
         LET pins == pagesToPinIndices(pageCountOf(3))
             others == [i \in 1..(MAX_PAGE_CACHE_SIZE - Len(pins)) |->
                          i + PAGES_TO_PIN_AT_START - 1]
         IN pageRenderLruRef = IF pinnedFirst THEN pins \o others
                               ELSE others \o pins
    /\ pinnedPagesRef = {p \in FullCachePages :
                            IndexOf(pagesToPinIndices(pageCountOf(3)), p) # 0}
    /\ pageRenders \in {{}, {[NewRender(0, 3, TRUE) EXCEPT !.at = "render"]}}
    /\ previewProps = [impositionType |-> "stack", propColumns |-> 1,
                       propRows |-> 1, isDuplex |-> FALSE]
    /\ currentPhysicalSheet0Based = 0
    /\ currentSideIsFront = TRUE
    /\ totalPhysicalSheetsPreview = totalSheetsOfPreview(pageCountOf(3), previewProps)

\* The pages asked for while the long document is shown: page 0 and the
\* pages that are not cached.
FullCacheRequests == {0} \cup ((0..(pageCountOf(3) - 1)) \ FullCachePages)

FullCacheNext ==
    \/ \E d \in {0} : PreviewDocumentChanges(d)
    \/ \E pages \in NearbyPageLists : CacheNearbySheets(pages)
    \/ \E pageIndex \in FullCacheRequests : GetCachedPage(pageIndex)
    \/ \E r \in pageRenders : GetPageResolves(r)
    \/ \E r \in pageRenders : RenderResolves(r)
    \/ \E r \in pageRenders : GetCachedPageReturnsNull(r)

FullCacheSpec == FullCacheInit /\ [][FullCacheNext]_vars

\* ------------------------------------------------ the preview's position
\* The settings the preview is tried with.
PreviewSettings ==
    [impositionType : ImpositionTypes, propColumns : 1..2, propRows : {1},
     isDuplex : BOOLEAN]

\* A setting of the App changes: the preview's effect computes the sheet
\* count again. The position is left as it is.
SetPreviewProps(p) ==
    /\ p # previewProps
    /\ previewProps' = p
    /\ totalPhysicalSheetsPreview' = totalSheetsOfPreview(pageCountOf(previewDoc), p)
    /\ UNCHANGED <<currentPhysicalSheet0Based, currentSideIsFront>>
    /\ UNCHANGED <<imposeVars, estimatorVars, callVars, pdfInfoVars, previewVars>>

handleSkipToFirstSheet ==
    /\ currentPhysicalSheet0Based' = 0
    /\ currentSideIsFront' = TRUE
    /\ UNCHANGED <<previewProps, totalPhysicalSheetsPreview>>
    /\ UNCHANGED <<imposeVars, estimatorVars, callVars, pdfInfoVars, previewVars>>

handleSkipToLastSheet ==
    /\ IF totalPhysicalSheetsPreview > 0
       THEN /\ currentPhysicalSheet0Based' = totalPhysicalSheetsPreview - 1
            /\ currentSideIsFront' = ~previewProps.isDuplex
       ELSE UNCHANGED <<currentPhysicalSheet0Based, currentSideIsFront>>
    /\ UNCHANGED <<previewProps, totalPhysicalSheetsPreview>>
    /\ UNCHANGED <<imposeVars, estimatorVars, callVars, pdfInfoVars, previewVars>>

handlePreviousSheet ==
    /\ IF previewProps.isDuplex
       THEN IF ~currentSideIsFront
            THEN /\ currentSideIsFront' = TRUE
                 /\ UNCHANGED currentPhysicalSheet0Based
            ELSE IF currentPhysicalSheet0Based > 0
                 THEN /\ currentPhysicalSheet0Based' = currentPhysicalSheet0Based - 1
                      /\ currentSideIsFront' = FALSE
                 ELSE UNCHANGED <<currentPhysicalSheet0Based, currentSideIsFront>>
       ELSE IF currentPhysicalSheet0Based > 0
            THEN /\ currentPhysicalSheet0Based' = currentPhysicalSheet0Based - 1
                 /\ UNCHANGED currentSideIsFront
            ELSE UNCHANGED <<currentPhysicalSheet0Based, currentSideIsFront>>
    /\ UNCHANGED <<previewProps, totalPhysicalSheetsPreview>>
    /\ UNCHANGED <<imposeVars, estimatorVars, callVars, pdfInfoVars, previewVars>>

handleNextSheet ==
    /\ IF previewProps.isDuplex
       THEN IF currentSideIsFront
            THEN /\ currentSideIsFront' = FALSE
                 /\ UNCHANGED currentPhysicalSheet0Based
            ELSE IF currentPhysicalSheet0Based < totalPhysicalSheetsPreview - 1
                 THEN /\ currentPhysicalSheet0Based' = currentPhysicalSheet0Based + 1
                      /\ currentSideIsFront' = TRUE
                 ELSE UNCHANGED <<currentPhysicalSheet0Based, currentSideIsFront>>
       ELSE IF currentPhysicalSheet0Based < totalPhysicalSheetsPreview - 1
            THEN /\ currentPhysicalSheet0Based' = currentPhysicalSheet0Based + 1
                 /\ UNCHANGED currentSideIsFront
            ELSE UNCHANGED <<currentPhysicalSheet0Based, currentSideIsFront>>
    /\ UNCHANGED <<previewProps, totalPhysicalSheetsPreview>>
    /\ UNCHANGED <<imposeVars, estimatorVars, callVars, pdfInfoVars, previewVars>>

\* The jump field holding a sheet number, with or without a final B. A
\* number that is not positive, or past the sheet count when there are
\* sheets, is refused with an alert.
handleJumpToSheet(sheetNum1Based, endsWithB) ==
    /\ IF sheetNum1Based <= 0
          \/ (totalPhysicalSheetsPreview > 0
                /\ sheetNum1Based > totalPhysicalSheetsPreview)
       THEN UNCHANGED <<currentPhysicalSheet0Based, currentSideIsFront>>
       ELSE /\ currentPhysicalSheet0Based' = sheetNum1Based - 1
            /\ currentSideIsFront' =
                   (IF previewProps.isDuplex THEN ~endsWithB ELSE TRUE)
    /\ UNCHANGED <<previewProps, totalPhysicalSheetsPreview>>
    /\ UNCHANGED <<imposeVars, estimatorVars, callVars, pdfInfoVars, previewVars>>

\* The thumbnails of the sheet list: every sheet's front, and its back in
\* duplex; none without a document.
sheetContextItems ==
    IF previewDoc = 0 \/ totalPhysicalSheetsPreview = 0
    THEN {}
    ELSE {[sheetNumber0Based |-> i, isFront |-> f] :
            i \in 0..(totalPhysicalSheetsPreview - 1),
            f \in (IF previewProps.isDuplex THEN BOOLEAN ELSE {TRUE})}

handleContextSheetSelect(item) ==
    /\ item \in sheetContextItems
    /\ currentPhysicalSheet0Based' = item.sheetNumber0Based
    /\ currentSideIsFront' = item.isFront
    /\ UNCHANGED <<previewProps, totalPhysicalSheetsPreview>>
    /\ UNCHANGED <<imposeVars, estimatorVars, callVars, pdfInfoVars, previewVars>>

NavInit ==
    /\ ImposeIdle
    /\ EstimatorIdle
    /\ OthersIdle

\* The renders the pin effect starts are let go as rejected.
NavNext ==
    \/ \E d \in 0..2 : PreviewDocumentChanges(d)
    \/ \E r \in pageRenders : GetCachedPageReturnsNull(r)
    \/ \E p \in PreviewSettings : SetPreviewProps(p)
    \/ handleSkipToFirstSheet
    \/ handleSkipToLastSheet
    \/ handlePreviousSheet
    \/ handleNextSheet
    \/ \E n \in 0..(MaxPreviewPages + 1), b \in BOOLEAN : handleJumpToSheet(n, b)
    \/ \E item \in sheetContextItems : handleContextSheetSelect(item)

NavSpec == NavInit /\ [][NavNext]_vars

\* -------------------------------------------------- the preview's page mapping
\* getPageMappingForSheet of the preview: the input page of every slot of
\* one side of a sheet, Null for an empty slot. In booklet mode the two
\* pages go to slots 0 and 1 whatever the grid.
getPageMappingForSheet(physicalSheet0Based, isSheetSideFront, type, cols, rws, isDocumentDuplex, totalInputPdfPages) ==
    LET slots == cols * rws
        InRange(i) == IF i >= 0 /\ i < totalInputPdfPages THEN i ELSE Null
        Below(i) == IF i < totalInputPdfPages THEN i ELSE Null
        padded == CeilDiv(totalInputPdfPages, 4) * 4
        pageOffset == IF isSheetSideFront THEN 0 ELSE 1
        pageIndicesForSlots ==
          CASE type = "booklet" ->
                 LET pageIndices ==
                       IF isSheetSideFront
                         THEN <<padded - (physicalSheet0Based * 2) - 1, physicalSheet0Based * 2>>
                       ELSE <<physicalSheet0Based * 2 + 1, padded - (physicalSheet0Based * 2) - 2>>
                 IN [i \in 1..(IF slots < 2 THEN 2 ELSE slots) |->
                       IF i <= 2 THEN InRange(pageIndices[i]) ELSE Null]
            [] type = "stack" ->
                 LET baseInputIndexForSheet ==
                       physicalSheet0Based * slots * (IF isDocumentDuplex THEN 2 ELSE 1)
                 IN [i \in 1..slots |->
                       Below(baseInputIndexForSheet
                               + (IF isDocumentDuplex THEN ((i - 1) * 2) + pageOffset
                                  ELSE i - 1))]
            [] type = "repeat" ->
                 LET masterPageIndex ==
                       physicalSheet0Based * (IF isDocumentDuplex THEN 2 ELSE 1) + pageOffset
                 IN [i \in 1..slots |-> Below(masterPageIndex)]
            [] OTHER ->
                 LET pagesPerLogicalStack == CeilDiv(totalInputPdfPages, slots)
                     totalSheetsForMode ==
                       IF isDocumentDuplex THEN CeilDiv(pagesPerLogicalStack, 2)
                       ELSE pagesPerLogicalStack
                     slotsPerColumn == totalSheetsForMode * (IF isDocumentDuplex THEN 2 ELSE 1)
                     logicalPageIndex ==
                       physicalSheet0Based * (IF isDocumentDuplex THEN 2 ELSE 1) + pageOffset
                 IN [i \in 1..slots |-> Below(logicalPageIndex + (i - 1) * slotsPerColumn)]
    IN IF slots = 0 \/ totalInputPdfPages = 0
         THEN [i \in 1..slots |-> Null]
       ELSE IF ~isSheetSideFront /\ isDocumentDuplex
               /\ type \in {"stack", "collateCut"} /\ cols > 1
         THEN [i \in 1..slots |->
                 LET row == (i - 1) \div cols
                     col == (i - 1) % cols
                 IN pageIndicesForSlots[row * cols + (cols - 1 - col) + 1]]
       ELSE pageIndicesForSlots

\* ------------------------------------------------- observing the output
\* Every page added so far in this run, in the order it was added: the
\* pages of the downloaded files, then those of the open document.
RECURSIVE PagesOfDownloads(_)
PagesOfDownloads(n) ==
    IF n = 0 THEN <<>> ELSE PagesOfDownloads(n - 1) \o downloads[n].pages

AllPages == PagesOfDownloads(Len(downloads)) \o outputPdfDoc.pages

\* The input page drawn in slot s (0-based) of an output page, Null if none.
SlotPage(pg, s) ==
    IF \E i \in 1..Len(pg.draws) : pg.draws[i].slot = s
      THEN (CHOOSE d \in {pg.draws[i] : i \in 1..Len(pg.draws)} : d.slot = s).page
    ELSE Null

\* The output page of side sd of sheet k, among the pages of seq.
HasSide(seq, k, sd) == \E i \in 1..Len(seq) : seq[i].sheet = k /\ seq[i].side = sd
SideOf(seq, k, sd) ==
    seq[CHOOSE i \in 1..Len(seq) : seq[i].sheet = k /\ seq[i].side = sd]

\* How many times input page p has been drawn in the pages of seq.
TimesPlaced(seq, p) ==
    Cardinality({<<i, j>> \in
        UNION {{<<i, j>> : j \in 1..Len(seq[i].draws)} : i \in 1..Len(seq)} :
        seq[i].draws[j].page = p})

PagesPlaced(seq) ==
    UNION {{seq[i].draws[j].page : j \in 1..Len(seq[i].draws)} : i \in 1..Len(seq)}

\* ----------------------------------------------------------------- C1
\* C1: in stack and collateCut modes a completed run has drawn every input
\* page 0..P-1 exactly once over all sheets and sides, and no other index.
C1_EveryPagePlacedOnce ==
    (pc = "done" /\ impositionType \in {"stack", "collateCut"}) =>
        /\ PagesPlaced(AllPages) = 0..(numInputPages - 1)
        /\ \A p \in 0..(numInputPages - 1) : TimesPlaced(AllPages, p) = 1

\* A completed duplex collateCut run on a multi-slot grid with a ragged end.
C1_Witness ==
    /\ pc = "done"
    /\ impositionType = "collateCut"
    /\ isDuplex
    /\ columns = 2 /\ rows = 2
    /\ numInputPages = 7
    /\ Len(AllPages) = 2

\* ----------------------------------------------------------------- C2
\* The back-side partner of a front page: the next input page, if any.
BackPartner(p) ==
    IF p # Null /\ p + 1 < numInputPages THEN p + 1 ELSE Null

\* C2: in duplex stack/collateCut with more than one column, on every sheet
\* the back slot (r, c) carries the back-side partner of the page in front
\* slot (r, columns-1-c).
C2_WorkAndTurn ==
    (impositionType \in {"stack", "collateCut"} /\ isDuplex /\ columns > 1) =>
        \A i \in 1..Len(outputPdfDoc.pages) :
            outputPdfDoc.pages[i].side = "B" =>
                LET back == outputPdfDoc.pages[i]
                    front == SideOf(outputPdfDoc.pages, back.sheet, "F")
                IN /\ HasSide(outputPdfDoc.pages, back.sheet, "F")
                   /\ \A r \in 0..(rows - 1) : \A c \in 0..(columns - 1) :
                        SlotPage(back, r * columns + c) =
                          BackPartner(SlotPage(front, r * columns + (columns - 1 - c)))

\* A back side of a 3-column stack sheet whose row really is reversed.
C2_Witness ==
    /\ impositionType = "stack" /\ isDuplex /\ columns = 3 /\ rows = 1
    /\ numInputPages = 6
    /\ Len(outputPdfDoc.pages) = 2
    /\ SlotPage(outputPdfDoc.pages[1], 0) = 0
    /\ SlotPage(outputPdfDoc.pages[1], 2) = 4
    /\ SlotPage(outputPdfDoc.pages[2], 0) = 5
    /\ SlotPage(outputPdfDoc.pages[2], 2) = 1

\* ----------------------------------------------------------------- C3
\* The slot behind front slot s once the sheet is turned over.
BehindSlot(s) ==
    LET row == s \div columns
        col == s % columns
    IN row * columns + (columns - 1 - col)

\* The pile obtained by cutting the printed sheets into slot stacks and
\* stacking them in slot order: slot by slot, sheet by sheet, front then back.
CutAndStack(seq) ==
    LET sides == IF isDuplex THEN 2 ELSE 1
        perSlot == totalPhysicalSheets * sides
        leaf(n) ==
            LET s == (n - 1) \div perSlot
                k == ((n - 1) % perSlot) \div sides
                isBack == ((n - 1) % perSlot) % sides = 1
            IN IF isBack THEN SlotPage(SideOf(seq, k, "B"), BehindSlot(s))
               ELSE SlotPage(SideOf(seq, k, "F"), s)
    IN SelectSeq([n \in 1..(slotsPerSheet * perSlot) |-> leaf(n)],
                 LAMBDA p : p # Null)

\* C3: in collateCut mode the cut-and-stacked pile of a completed run reads
\* 0, 1, ..., P-1; 8 pages on 2x1 duplex give 2 sheets, sheet 0 with front
\* slots (0, 4) and back slots (5, 1).
C3_CollateCutReconstruction ==
    (pc = "done" /\ impositionType = "collateCut") =>
        /\ CutAndStack(AllPages) = [n \in 1..numInputPages |-> n - 1]
        /\ (numInputPages = 8 /\ columns = 2 /\ rows = 1 /\ isDuplex) =>
              /\ totalPhysicalSheets = 2
              /\ Len(AllPages) = 4
              /\ SlotPage(SideOf(AllPages, 0, "F"), 0) = 0
              /\ SlotPage(SideOf(AllPages, 0, "F"), 1) = 4
              /\ SlotPage(SideOf(AllPages, 0, "B"), 0) = 5
              /\ SlotPage(SideOf(AllPages, 0, "B"), 1) = 1

\* The completed 8-page 2x1 duplex collateCut run of the scenario.
C3_Witness ==
    /\ pc = "done" /\ impositionType = "collateCut"
    /\ numInputPages = 8 /\ columns = 2 /\ rows = 1 /\ isDuplex
    /\ CutAndStack(AllPages) = <<0, 1, 2, 3, 4, 5, 6, 7>>

\* ----------------------------------------------------------------- C4
\* C4: in booklet mode sheet k carries front-left padded-2k-1, front-right
\* 2k, back-left 2k+1, back-right padded-2k-2 (a slot whose index is not an
\* input page stays blank), the four indices summing to 2*padded-2; for 16
\* pages sheet 0 is (15, 0) / (1, 14) and sheet 3 is (9, 6) / (7, 8).
C4_BookletSignature ==
    (impositionType = "booklet") =>
        LET padded == 4 * CeilDiv(numInputPages, 4)
            Blank(i) == IF i < numInputPages THEN i ELSE Null
        IN /\ \A i \in 1..Len(outputPdfDoc.pages) :
                LET pg == outputPdfDoc.pages[i]
                    k == pg.sheet
                IN /\ k \in 0..(padded \div 4 - 1)
                   /\ pg.side = "F" =>
                        /\ SlotPage(pg, 0) = Blank(padded - 2 * k - 1)
                        /\ SlotPage(pg, 1) = Blank(2 * k)
                   /\ pg.side = "B" =>
                        /\ SlotPage(pg, 0) = Blank(2 * k + 1)
                        /\ SlotPage(pg, 1) = Blank(padded - 2 * k - 2)
                        /\ numInputPages = padded =>
                             SlotPage(pg, 0) + SlotPage(pg, 1)
                               + SlotPage(outputPdfDoc.pages[i - 1], 0)
                               + SlotPage(outputPdfDoc.pages[i - 1], 1)
                               = 2 * padded - 2
           /\ \A k \in 0..(totalPhysicalSheets - 1) :
                pageIndexFL(k) + pageIndexFR(k) + pageIndexBL(k) + pageIndexBR(k)
                  = 2 * padded - 2
           /\ (numInputPages = 16 /\ pc = "done" /\ ~needsChunking) =>
                /\ Len(AllPages) = 8
                /\ SlotPage(SideOf(AllPages, 0, "F"), 0) = 15
                /\ SlotPage(SideOf(AllPages, 0, "F"), 1) = 0
                /\ SlotPage(SideOf(AllPages, 0, "B"), 0) = 1
                /\ SlotPage(SideOf(AllPages, 0, "B"), 1) = 14
                /\ SlotPage(SideOf(AllPages, 3, "F"), 0) = 9
                /\ SlotPage(SideOf(AllPages, 3, "F"), 1) = 6
                /\ SlotPage(SideOf(AllPages, 3, "B"), 0) = 7
                /\ SlotPage(SideOf(AllPages, 3, "B"), 1) = 8

\* The completed 16-page booklet of the scenario: 4 sheets, 8 output pages.
C4_Witness ==
    /\ impositionType = "booklet" /\ numInputPages = 16 /\ pc = "done"
    /\ Len(AllPages) = 8
    /\ SlotPage(SideOf(AllPages, 3, "B"), 1) = 8

\* ----------------------------------------------------------------- C5
\* The sheet count of each mode as the specification gives it.
SheetsOfMode ==
    LET P == numInputPages
        S == columns * rows
    IN CASE impositionType = "booklet" -> CeilDiv(P, 4)
         [] impositionType = "repeat" -> IF isDuplex THEN CeilDiv(P, 2) ELSE P
         [] impositionType = "stack" -> CeilDiv(P, S * (IF isDuplex THEN 2 ELSE 1))
         [] OTHER -> IF isDuplex THEN CeilDiv(CeilDiv(P, S), 2) ELSE CeilDiv(P, S)

C6_ExternalErrorKeepsEarlierChunks ==
    [][ /\ (error' = "External" /\ error # "External") =>
              /\ pc' = "error"
              /\ ~isLoading'
              /\ downloads' = downloads
              /\ Len(downloads') = chunkIndex'
              /\ \A j \in 1..Len(downloads') :
                    /\ downloads'[j].part = j
                    /\ downloads'[j].pages # <<>>
        /\ pc = "error" =>
              /\ downloads' = downloads
              /\ outputPdfDoc' = outputPdfDoc
              /\ pc' = "error" ]_vars

\* A chunked run that failed while its second chunk was being produced.
C6_Witness ==
    /\ pc = "error" /\ error = "External" /\ ~isLoading
    /\ needsChunking /\ totalChunks > 1
    /\ chunkIndex = 1
    /\ Len(downloads) = 1
    /\ physicalSheetIndex > chunkStartSheet

\* ----------------------------------------------------------------- C7
\* C7: every configuration error (content block exceeding the sheet, no
\* fitting orientation, bleed exceeding the page) is raised before the first
\* output document is created: a run that ends with one has added no page
\* and downloaded no file, and no document is ever created for a job whose
\* layout exceeds the sheet or whose bleed leaves the page no trim area.
C7_ConfigErrorsBeforeOutput ==
    /\ error \in ConfigErrors =>
          /\ pc = "error"
          /\ ~isLoading
          /\ ~outputPdfDoc.open
          /\ outputPdfDoc.pages = <<>>
          /\ downloads = <<>>
          /\ chunkIndex = 0
    /\ (outputPdfDoc.open \/ downloads # <<>>) =>
          /\ actualSheet.ok
          /\ totalRequiredWidth <= actualSheet.width
          /\ totalRequiredHeight <= actualSheet.height
          /\ params.pageWidth > 2 * params.bleed
          /\ params.pageHeight > 2 * params.bleed

\* ----------------------------------------------------------------- C8
\* C8: once the run is cancelled no further sheet is rendered and the run
\* does not complete normally (it ends with a Cancelled error).
C8_CancelStopsRendering ==
    [][ cancelRequested =>
          /\ Len(outputPdfDoc'.pages) <= Len(outputPdfDoc.pages)
          /\ pc' # "done" ]_vars

\* ----------------------------------------------------------------- C9
\* C9: every chunk of a chunked run holds whole sheets and at most 50
\* output pages in repeat mode, at most 100 in every other mode.
C9_ChunkPageLimit ==
    \A j \in 1..Len(downloads) :
        downloads[j].chunked =>
            LET pages == downloads[j].pages
            IN /\ Len(pages) <= (IF impositionType = "repeat" THEN 50 ELSE 100)
               /\ \A i \in 1..Len(pages) :
                    /\ pages[i].side = "B" => HasSide(pages, pages[i].sheet, "F")
                    /\ (pages[i].side = "F" /\ (isDuplex \/ impositionType = "booklet"))
                          => HasSide(pages, pages[i].sheet, "B")

\* ---------------------------------------------------------------- C10
\* The row of a slot position counted from the top of the sheet, and its
\* column counted from the left, read off the coordinates.
RowFromTop(y) ==
    LET positions == slotPositions
        ys == {positions[s].y : s \in DOMAIN positions}
    IN  Cardinality({v \in ys : v > y})

ColFromLeft(x, y) ==
    LET positions == slotPositions
    IN  Cardinality({s \in DOMAIN positions :
                        positions[s].y = y /\ positions[s].x < x})

\* C10: output pages are added in strictly ascending sheet order within and
\* across chunks, the front of a sheet right before its back, and on a side
\* the slots are drawn in ascending slot index, slot row*columns+col lying
\* in the row-th row from the top and the col-th column from the left.
C10_ProductionOrder ==
    /\ LET pages == AllPages
       IN \A i \in 1..Len(pages) :
            /\ pages[i].side = "B" =>
                  /\ i > 1
                  /\ pages[i - 1].side = "F"
                  /\ pages[i - 1].sheet = pages[i].sheet
            /\ (pages[i].side = "F" /\ i > 1) =>
                  pages[i - 1].sheet < pages[i].sheet
    /\ \A i \in 1..Len(outputPdfDoc.pages) :
          LET draws == outputPdfDoc.pages[i].draws
          IN /\ \A a, b \in 1..Len(draws) : a < b => draws[a].slot < draws[b].slot
             /\ \A a \in 1..Len(draws) :
                  draws[a].slot = RowFromTop(draws[a].y) * currentColumnsForLayout
                                    + ColFromLeft(draws[a].x, draws[a].y)

\* A completed 2x2 duplex stack run of 9 pages: two sheets, four sides, the
\* first front with all four slots drawn.
C10_Witness ==
    /\ pc = "done" /\ impositionType = "stack" /\ isDuplex
    /\ columns = 2 /\ rows = 2 /\ numInputPages = 9
    /\ Len(AllPages) = 4
    /\ Len(AllPages[1].draws) = 4
    /\ AllPages[1].draws[1].y > AllPages[1].draws[3].y
\* ---------------------------------------------------------------- C11
\* C11: whenever the imposition type is booklet the settings are 2 columns,
\* 1 row, duplex on, and what imposePdf derives from the settings is what
\* it derives for a 2 x 1 duplex layout: the slot layout, the oriented
\* sheet, the back page of every sheet and the sheets of a chunk.
C11_BookletIsTwoUpDuplex ==
    isBookletMode =>
        /\ columns = 2 /\ rows = 1 /\ isDuplex
        /\ currentColumnsForLayout = 2 /\ currentRowsForLayout = 1
        /\ slotsPerSheet = 2
        /\ actualSheet = OrientedSheet(2, 1)
        /\ sheetsPerChunk = pageLimit \div 2

\* ---------------------------------------------------------------- C12
\* The run has passed the plan: the layout was accepted.
LayoutAccepted == pc \in {"chunk", "sheet", "back", "done"}

\* A cell with its lower left corner at (x, y) lies within the sheet.
CellWithinSheet(x, y) ==
    /\ 0 <= x
    /\ x + layoutCellWidth <= actualSheet.width
    /\ 0 <= y
    /\ y + layoutCellHeight <= actualSheet.height

\* C12: for every layout imposePdf accepts, every slot (row, col) lies
\* within the press sheet, the odd rows shifted by half a column stride
\* included, and so does every page drawn.
C12_SlotsWithinSheet ==
    LayoutAccepted =>
        /\ \A row \in 0..(currentRowsForLayout - 1) :
              \A col \in 0..(currentColumnsForLayout - 1) :
                 CellWithinSheet(SlotX(row, col), SlotY(row))
        /\ LET pages == AllPages
           IN \A i \in 1..Len(pages) : \A j \in 1..Len(pages[i].draws) :
                CellWithinSheet(pages[i].draws[j].x, pages[i].draws[j].y)

\* A completed run on two rows with the half row offset: the page of the
\* second row is drawn half a stride to the right of the first.
C12_Witness ==
    /\ pc = "done" /\ impositionType = "stack" /\ ~isDuplex
    /\ params.rowOffsetType = "half" /\ rows = 2 /\ columns = 1
    /\ params.horizontalGutter = 4
    /\ numInputPages = 2
    /\ Len(AllPages) = 1
    /\ Len(AllPages[1].draws) = 2
    /\ AllPages[1].draws[2].x = AllPages[1].draws[1].x + HalfStride
    /\ AllPages[1].draws[2].x + layoutCellWidth <= actualSheet.width

\* ---------------------------------------------------------------- C13
\* The content block actually laid out fits the sheet in landscape / in
\* portrait.
AdmitsLandscape ==
    totalRequiredWidth <= paperLongSidePoints /\ totalRequiredHeight <= paperShortSidePoints
AdmitsPortrait ==
    totalRequiredWidth <= paperShortSidePoints /\ totalRequiredHeight <= paperLongSidePoints

\* C13: with sheet orientation auto, once the plan is over the run has
\* failed with a configuration error only if neither orientation admits
\* the content block actually laid out, and otherwise the sheet is the
\* press sheet in an orientation that admits the block.
C13_AutoAdmitsLaidOutBlock ==
    (params.sheetOrientation = "auto" /\ (LayoutAccepted \/ error \in ConfigErrors)) =>
        /\ error \in ConfigErrors => ~(AdmitsLandscape \/ AdmitsPortrait)
        /\ LayoutAccepted =>
              /\ actualSheet.ok
              /\ <<actualSheet.width, actualSheet.height>> \in
                    {<<paperLongSidePoints, paperShortSidePoints>>,
                     <<paperShortSidePoints, paperLongSidePoints>>}
              /\ totalRequiredWidth <= actualSheet.width
              /\ totalRequiredHeight <= actualSheet.height

\* ---------------------------------------------------------------- C14
\* C14: a job is accepted only if the input page exceeds 2 * bleed in width
\* and in height (any other job ends with an error and no output), so
\* every page drawn has a trim rectangle of positive width and height.
C14_BleedLeavesTrimArea ==
    /\ (LayoutAccepted \/ outputPdfDoc.open \/ downloads # <<>>) =>
          /\ layoutCellWidth > 2 * bleedPoints
          /\ layoutCellHeight > 2 * bleedPoints
    /\ \A i \in 1..Len(AllPages) : \A j \in 1..Len(AllPages[i].draws) :
          /\ AllPages[i].draws[j].trimWidth > 0
          /\ AllPages[i].draws[j].trimHeight > 0

\* ---------------------------------------------------------------- C15
\* The finished piece w x h fits the parent sheet of the paper one way or
\* the other.
FitsParentSheet(w, h, paper) ==
    \/ w <= paper.parentWidth /\ h <= paper.parentHeight
    \/ h <= paper.parentWidth /\ w <= paper.parentHeight

\* The job is invalid: saddle stitch with a page count that is no multiple
\* of 4, a printed interior whose finished size does not fit its paper, or a
\* cover whose spread does not fit the cover paper.
InvalidJob(d) ==
    \/ d.bindingMethod = "saddleStitch" /\ (d.bwPages + d.colorPages) % 4 # 0
    \/ /\ d.bwPages > 0
       /\ FindPaper(d.bwPaperSku) # NoPaper
       /\ ~FitsParentSheet(d.finishedWidth, d.finishedHeight, FindPaper(d.bwPaperSku))
    \/ /\ d.colorPages > 0
       /\ FindPaper(d.colorPaperSku) # NoPaper
       /\ ~FitsParentSheet(d.finishedWidth, d.finishedHeight,
                           FindPaper(d.colorPaperSku))
    \/ /\ d.hasCover
       /\ FindPaper(d.coverPaperSku) # NoPaper
       /\ ~FitsParentSheet(2 * d.finishedWidth + spineWidth(d), d.finishedHeight,
                           FindPaper(d.coverPaperSku))

NumericFields ==
    {"bwPaperCost", "colorPaperCost", "coverPaperCost", "bwClickCost",
     "colorClickCost", "coverClickCost", "laminationCost", "laborCost",
     "shippingCost", "subtotal", "markupAmount", "totalCost", "pricePerUnit",
     "bwPressSheets", "colorPressSheets", "coverPressSheets", "bwImposition",
     "colorImposition", "coverImposition", "totalClicks", "productionTimeHours"}

AllZero(b) ==
    /\ \A f \in NumericFields : b[f] = 0
    /\ \A f \in DOMAIN b.laborTimeBreakdown : b.laborTimeBreakdown[f] = 0

\* C15: calculateCosts returns for every job, and for every invalid job
\* (saddle stitch with (bwPages + colorPages) mod 4 # 0, a finished size that
\* does not fit the press sheet, a cover spread that does not fit) what it
\* returns has its error set, every numeric field zero and no shipping
\* breakdown.
C15_InvalidJobGivesErrorBreakdown ==
    (estimatorPc = "returned" /\ InvalidJob(details)) =>
        /\ costBreakdown.error # NoCostError
        /\ AllZero(costBreakdown)
        /\ costBreakdown.shippingBreakdown = NoShippingBreakdown

\* A perfect-bound job whose cover spread, 19 in and the spine, is wider than
\* the 19 in cover sheet: the cover error, with everything zero.
C15_Witness ==
    /\ estimatorPc = "returned"
    /\ details.bindingMethod = "perfectBound"
    /\ details.hasCover
    /\ details.coverPaperSku = CoverSku
    /\ details.finishedWidth = Inches(950)
    /\ details.bwPages = 2
    /\ details.bwPaperSku = TextSku
    /\ details.quantity = 30
    /\ details.calculateShipping
    /\ spineWidth(details) > 0
    /\ costBreakdown.error
         = "Full cover spread (including spine) does not fit on the selected cover paper."
    /\ costBreakdown.totalCost = 0

\* ---------------------------------------------------------------- C16
\* A component the job uses names a SKU that is not in the catalog.
UsesMissingSku(d) ==
    \/ d.bwPages > 0 /\ FindPaper(d.bwPaperSku) = NoPaper
    \/ d.colorPages > 0 /\ FindPaper(d.colorPaperSku) = NoPaper
    \/ d.hasCover /\ FindPaper(d.coverPaperSku) = NoPaper

\* C16: a job that uses a component whose paper SKU is not in the catalog is
\* answered with an error, never with an error-free breakdown in which that
\* component's press sheets and paper cost are zero.
C16_MissingSkuIsAnError ==
    (estimatorPc = "returned" /\ UsesMissingSku(details)) =>
        costBreakdown.error # NoCostError

\* ---------------------------------------------------------------- C17
\* The jobs that differ from d in one of the six fields only, that field
\* raised.
RaisedQuantity(d) ==
    {[d EXCEPT !.quantity = v] : v \in {x \in JobQuantities : x > d.quantity}}
RaisedPages(d) ==
    {[d EXCEPT !.bwPages = v] : v \in {x \in BwPageCounts : x > d.bwPages}}
    \cup {[d EXCEPT !.colorPages = v] : v \in {x \in ColorPageCounts : x > d.colorPages}}
RaisedRates(d) ==
    {[d EXCEPT !.markupPercent = v] : v \in {x \in MarkupPercents : x > d.markupPercent}}
    \cup {[d EXCEPT !.laborRate = v] : v \in {x \in LaborRates : x > d.laborRate}}
    \cup {[d EXCEPT !.spoilagePercent = v] :
             v \in {x \in SpoilagePercents : x > d.spoilagePercent}}

\* C17 as stated: the total cost does not go down when one of quantity,
\* bwPages, colorPages, markupPercent, laborRate, spoilagePercent is raised
\* and everything else is held.
C17_TotalCostMonotone ==
    estimatorPc = "returned" =>
        \A e \in RaisedQuantity(details) \cup RaisedPages(details)
                 \cup RaisedRates(details) :
            calculateCosts(e).totalCost >= costBreakdown.totalCost

\* C17, amended: the total cost does not go down when quantity,
\* markupPercent, laborRate or spoilagePercent is raised, with or without
\* shipping, nor when bwPages or colorPages is raised without shipping,
\* provided the job with the raised value is answered without an error.
C17_TotalCostMonotoneAmongValidJobs ==
    estimatorPc = "returned" =>
        /\ \A e \in RaisedQuantity(details) \cup RaisedRates(details) :
               calculateCosts(e).error = NoCostError =>
                   calculateCosts(e).totalCost >= costBreakdown.totalCost
        /\ ~details.calculateShipping =>
               \A e \in RaisedPages(details) :
                   calculateCosts(e).error = NoCostError =>
                       calculateCosts(e).totalCost >= costBreakdown.totalCost

\* A job with shipping whose total rises with the spoilage: more press
\* sheets at 50 % than at 5 %.
C17_Witness ==
    /\ estimatorPc = "returned"
    /\ costBreakdown.error = NoCostError
    /\ details.calculateShipping
    /\ costBreakdown.shippingCost > 0
    /\ details.quantity = 30
    /\ details.spoilagePercent = 5
    /\ LET e == [details EXCEPT !.spoilagePercent = 50]
       IN /\ calculateCosts(e).error = NoCostError
          /\ calculateCosts(e).bwPressSheets > costBreakdown.bwPressSheets
          /\ calculateCosts(e).totalCost > costBreakdown.totalCost

\* ---------------------------------------------------------------- C18
\* calculateShipping has returned a packing plan.
HasPlan ==
    /\ estimatorPc = "returned"
    /\ shippingResult.breakdown # NoShippingBreakdown

\* The flattened box a plan names.
BoxNamed(name) ==
    flatBoxes[CHOOSE i \in DOMAIN flatBoxes : flatBoxes[i].name = name]

\* The six ways of laying a book along the width, length and height of a box.
BookOrientations(s) ==
    LET w == s.bookWidth
        l == s.bookLength
        sp == s.bookSpine
    IN { <<w, l, sp>>, <<w, sp, l>>, <<l, w, sp>>, <<l, sp, w>>,
         <<sp, w, l>>, <<sp, l, w>> }

\* One book lies in the box in at least one of the six orientations.
OneBookFits(box, s) ==
    \E o \in BookOrientations(s) :
        o[1] <= box.width /\ o[2] <= box.length /\ o[3] <= box.height

\* C18: a packing plan has a whole number of books per box, at least 1; its
\* boxes hold the quantity; one book fits the chosen box in one of the six
\* orientations; and a full box weighs at most 40 lb.
C18_PlanIsSound ==
    HasPlan =>
        LET plan == shippingResult.breakdown
        IN /\ plan.booksPerBox \in Nat
           /\ plan.booksPerBox >= 1
           /\ plan.boxCount \in Nat
           /\ plan.booksPerBox * plan.boxCount >= shipment.quantity
           /\ \E i \in DOMAIN flatBoxes : flatBoxes[i].name = plan.boxName
           /\ OneBookFits(BoxNamed(plan.boxName), shipment)
           /\ plan.booksPerBox * shipment.bookWeightLbs <= MAX_WEIGHT_PER_BOX_LBS

\* 500 books of 0.6 lb: the medium box holds 76 by size, the weight cap cuts
\* it to 66, and 8 boxes carry the 500.
C18_Witness ==
    /\ HasPlan
    /\ shipment.quantity = 500
    /\ shipment.bookWeightLbs = 600
    /\ shipment.bookSpine = Inches(25)
    /\ shipment.overrideBoxName = NoOverride
    /\ MathMax(orientations(BoxNamed(shippingResult.breakdown.boxName), shipment)) = 76
    /\ shippingResult.breakdown.booksPerBox = 66
    /\ shippingResult.breakdown.boxCount = 8

\* ---------------------------------------------------------------- C19
\* The boxes calculateShipping is to consider: every flattened box, or the
\* override box alone.
ConsideredBoxes(s) ==
    {i \in DOMAIN flatBoxes :
        s.overrideBoxName = NoOverride \/ flatBoxes[i].name = s.overrideBoxName}

\* Books along one axis of the box; an axis along which the book has no
\* extent does not limit the count, only the weight does.
AlongAxis(extent, size, s) ==
    IF size = 0 THEN MAX_WEIGHT_PER_BOX_LBS \div s.bookWeightLbs ELSE extent \div size

\* Books per box by the packing rule: the largest per-axis floor product of
\* the six orientations, capped by floor(40 lb / book weight).
BooksAdmitted(box, s) ==
    LET Count(o) == AlongAxis(box.width, o[1], s) * AlongAxis(box.length, o[2], s)
                    * AlongAxis(box.height, o[3], s)
        best == CHOOSE n \in {Count(o) : o \in BookOrientations(s)} :
                    \A o \in BookOrientations(s) : Count(o) <= n
    IN Min(best, MAX_WEIGHT_PER_BOX_LBS \div s.bookWeightLbs)

\* boxes * box cost + carrier cost of quantity * book weight.
PlanTotal(box, s) ==
    CeilDiv(s.quantity, BooksAdmitted(box, s)) * box.cost
    + getCarrierCost(s.quantity * s.bookWeightLbs)

\* The considered boxes that admit at least one book.
AdmittingBoxes(s) ==
    {i \in ConsideredBoxes(s) : BooksAdmitted(flatBoxes[i], s) >= 1}

\* C19: for a positive quantity of books of positive weight, calculateShipping
\* returns a plan whenever a considered box admits at least one book, the
\* plan is for such a box, and its cost is the least total among them.
C19_MinimumTotalBoxIsChosen ==
    (estimatorPc = "returned" /\ shipment.quantity > 0 /\ shipment.bookWeightLbs > 0) =>
        /\ AdmittingBoxes(shipment) = {} => shippingResult = NoShippingResult
        /\ AdmittingBoxes(shipment) # {} =>
               /\ shippingResult.breakdown # NoShippingBreakdown
               /\ \E i \in AdmittingBoxes(shipment) :
                      /\ flatBoxes[i].name = shippingResult.breakdown.boxName
                      /\ PlanTotal(flatBoxes[i], shipment) = shippingResult.shippingCost
               /\ \A i \in AdmittingBoxes(shipment) :
                      shippingResult.shippingCost <= PlanTotal(flatBoxes[i], shipment)

\* ---------------------------------------------------------------- C20
\* Scenario F: 500 books of 5.5 x 8.5 x 0.25 in, 0.6 lb each.
IsScenarioF(s) ==
    /\ s.quantity = 500
    /\ s.bookWidth = Inches(550)
    /\ s.bookLength = Inches(850)
    /\ s.bookSpine = Inches(25)
    /\ s.bookWeightLbs = 600

\* What the loop makes of the Standard Small Box, taken alone.
SmallBoxOption(s) ==
    ConsiderBox(BoxNamed(SmallBoxName),
                [cost |-> Infinity, breakdown |-> NoShippingBreakdown], s)

\* C20 as stated: the small box admits 19 books by orientation, the weight
\* cap is 66, and 27 boxes are used, the carrier cost taken at 300 lb.
C20_ScenarioF_19PerBox ==
    (estimatorPc = "returned" /\ IsScenarioF(shipment)) =>
        /\ MathMax(orientations(BoxNamed(SmallBoxName), shipment)) = 19
        /\ maxBooksByWeight(shipment) = 66
        /\ SmallBoxOption(shipment).breakdown.booksPerBox = 19
        /\ SmallBoxOption(shipment).breakdown.boxCount = 27
        /\ SmallBoxOption(shipment).breakdown.totalWeightLbs = 300000
        /\ SmallBoxOption(shipment).cost = 27 * 175000 + getCarrierCost(300000)

\* C20, amended: the small box admits 38 books by orientation (2 across the
\* width, 1 along the length, 19 in the height), the weight cap of 66 does not
\* bind, and 14 boxes are used, the carrier cost taken at 300 lb; with the
\* small box as the override this is the plan returned.
C20_ScenarioF_38PerBox ==
    (estimatorPc = "returned" /\ IsScenarioF(shipment)) =>
        /\ MathMax(orientations(BoxNamed(SmallBoxName), shipment)) = 38
        /\ maxBooksByWeight(shipment) = 66
        /\ SmallBoxOption(shipment).breakdown.booksPerBox = 38
        /\ SmallBoxOption(shipment).breakdown.boxCount = 14
        /\ SmallBoxOption(shipment).breakdown.totalWeightLbs = 300000
        /\ SmallBoxOption(shipment).cost = 14 * 175000 + getCarrierCost(300000)
        /\ shipment.overrideBoxName = SmallBoxName =>
               /\ shippingResult.breakdown = SmallBoxOption(shipment).breakdown
               /\ shippingResult.shippingCost = SmallBoxOption(shipment).cost

\* Scenario F with the small box as the override: 14 boxes, 254 dollars.
C20_Witness ==
    /\ estimatorPc = "returned"
    /\ IsScenarioF(shipment)
    /\ shipment.overrideBoxName = SmallBoxName
    /\ shippingResult.breakdown.boxName = SmallBoxName
    /\ shippingResult.breakdown.boxCount = 14
    /\ shippingResult.shippingCost = 25400000

\* ---------------------------------------------------------------- C21
\* The slots of an output page that carry no input page.
EmptySlots(pg) == {s \in 0..(slotsPerSheet - 1) : SlotPage(pg, s) = Null}

\* No slot of an output page is drawn twice.
OnePagePerSlot(pg) ==
    \A i, j \in 1..Len(pg.draws) : pg.draws[i].slot = pg.draws[j].slot => i = j

\* C21 as stated: in stack, repeat and collateCut modes every slot of a
\* sheet side carries at most one input page, and every side of every sheet
\* before the last has all of its slots filled.
C21_EmptySlotsOnlyOnLastSheet ==
    impositionType \in {"stack", "repeat", "collateCut"} =>
      \A i \in 1..Len(AllPages) :
        /\ OnePagePerSlot(AllPages[i])
        /\ AllPages[i].sheet < totalPhysicalSheets - 1 => EmptySlots(AllPages[i]) = {}

\* C21 amended: every slot of a sheet side carries at most one input page;
\* in stack and repeat modes a slot is empty only on the last sheet; in
\* collateCut mode a slot that is empty on one side of a sheet is empty on
\* that side of every later sheet (its column stack has run out).
C21_EmptySlotsOnlyAtTheTail ==
    impositionType \in {"stack", "repeat", "collateCut"} =>
      LET pages == AllPages
          empty == [i \in 1..Len(pages) |-> EmptySlots(pages[i])]
      IN  \A i \in 1..Len(pages) :
            /\ OnePagePerSlot(pages[i])
            /\ impositionType \in {"stack", "repeat"}
                 /\ pages[i].sheet < totalPhysicalSheets - 1
                 => empty[i] = {}
            /\ impositionType = "collateCut" =>
                 \A j \in 1..Len(pages) :
                   pages[j].side = pages[i].side
                   /\ pages[j].sheet > pages[i].sheet
                   => empty[i] \subseteq empty[j]

\* A finished collateCut run of several sheets whose first sheet has an
\* empty slot, and whose sheets are all in the output.
C21_Witness ==
    /\ pc = "done"
    /\ impositionType = "collateCut"
    /\ totalPhysicalSheets > 1
    /\ HasSide(AllPages, 0, "F")
    /\ HasSide(AllPages, totalPhysicalSheets - 1, "F")
    /\ EmptySlots(SideOf(AllPages, 0, "F")) # {}

\* ---------------------------------------------------------------- C22
\* The two pages of a booklet spread as the left-to-right layout sets them:
\* <<slot 0, slot 1>> of the front and of the back of sheet k.
LtrSpread(k, sd) ==
    IF sd = "F" THEN <<PageOrNull(pageIndexFL(k)), PageOrNull(pageIndexFR(k))>>
    ELSE <<PageOrNull(pageIndexBL(k)), PageOrNull(pageIndexBR(k))>>

\* C22 as stated: in booklet mode the right-to-left reading direction swaps
\* the two pages of every spread: on both sides of every sheet, slot 0 holds
\* the page the left-to-right layout puts in slot 1, and slot 1 the page it
\* puts in slot 0.
C22_RtlSwapsSpreadPages ==
    impositionType = "booklet" =>
      \A i \in 1..Len(AllPages) :
        LET pg == AllPages[i]
            ltr == LtrSpread(pg.sheet, pg.side)
        IN IF readingDirection = "ltr"
             THEN SlotPage(pg, 0) = ltr[1] /\ SlotPage(pg, 1) = ltr[2]
           ELSE SlotPage(pg, 0) = ltr[2] /\ SlotPage(pg, 1) = ltr[1]

\* ---------------------------------------------------------------- C23
\* C23 as stated: the layout settings of the App always have at least one
\* column and at least one row.
C23_AtLeastOneColumnAndRow ==
    columns >= 1 /\ rows >= 1

\* ---------------------------------------------------------------- C24
\* C24 as stated: a finished run that produced one document named it
\* {title}.pdf, and a run that produced N > 1 documents named the i-th one
\* {title}_part_{i}_of_{N}.pdf, in production order.
C24_PartNamesIffSeveralDocuments ==
    pc = "done" =>
      LET N == Len(downloads)
      IN \A i \in 1..N :
           downloads[i].name =
             IF N = 1 THEN downloadFileNameBase \o ".pdf"
             ELSE downloadFileNameBase \o "_part_" \o ToString(i)
                    \o "_of_" \o ToString(N) \o ".pdf"

\* ---------------------------------------------------------------- C25
\* C25: getCarrierCost is monotonically non-decreasing in the total weight:
\* for weights 0 <= w1 <= w2 the cost at w1 is at most the cost at w2, across
\* every tier boundary and across the 50 lb step to the linear tail.
C25_CarrierCostMonotone ==
    result.name = "getCarrierCost" /\ 0 <= call.w1 /\ call.w1 <= call.w2
      => result.cost1 <= result.cost2

\* The costs on the two sides of the 50 lb transition have been computed:
\* 42.00 at 50 lb and 42.00075 one thousandth of a pound above.
C25_Witness ==
    /\ result.name = "getCarrierCost"
    /\ call.w1 = 50000 /\ call.w2 = 50001
    /\ result.cost1 = 4200000
    /\ result.cost2 = 4200075

\* ---------------------------------------------------------------- C26
\* One millionth of an inch.
SpineTolerance == SpineUnitsPerInch \div 1000000

\* C26: for a positive page count and trim size and every declared paper
\* key the calculator yields spine = pages / PPI + 2 * caliper, spread width
\* = 2 * trim width + spine + 2 * bleed and spread height = trim height +
\* 2 * bleed, so that spread width - 2 * bleed - 2 * trim width is the spine
\* to within a millionth of an inch.
C26_CoverSpreadDimensions ==
    /\ result.name = "BookSpineCalculator"
    /\ call.numInteriorPages > 0
    /\ call.finishedBookWidth > 0
    /\ call.finishedBookHeight > 0
    => LET spine == RoundedQuotient(call.numInteriorPages * SpineUnitsPerInch,
                        INTERIOR_PAPER_PPI[call.interiorPaperType][call.interiorPaperWeight])
                      + 2 * COVER_PAPER_THICKNESS[call.coverPaperType][call.coverPaperWeight]
           residue == result.fullCoverWidthInches - (2 * call.coverBleed)
                        - (2 * call.finishedBookWidth) - result.spineWidthInches
       IN /\ result.calculated
          /\ result.spineWidthInches = spine
          /\ result.fullCoverWidthInches =
                (2 * call.finishedBookWidth) + spine + (2 * call.coverBleed)
          /\ result.fullCoverHeightInches =
                call.finishedBookHeight + (2 * call.coverBleed)
          /\ residue <= SpineTolerance /\ 0 - residue <= SpineTolerance

\* The default form has been calculated: 96 pages of 60# opaque (500 PPI)
\* in a 100# silk cover, 6 x 9 in with 0.125 in bleed, give a spine of
\* 0.211 in and a spread of 12.461 x 9.25 in.
C26_Witness ==
    /\ result.name = "BookSpineCalculator"
    /\ result.calculated
    /\ call.numInteriorPages = 96
    /\ result.selectedInteriorPPI = 500
    /\ result.spineWidthInches = 2110000
    /\ result.fullCoverWidthInches = 124610000
    /\ result.fullCoverHeightInches = 92500000

\* ---------------------------------------------------------------- C27
\* The preview's mapping of one side of sheet k for the job of the run.
PreviewMapping(k, front) ==
    getPageMappingForSheet(k, front, impositionType, columns, rows, isDuplex,
                           numInputPages)

\* The input page a finished run has drawn in slot s of a side of sheet k,
\* Null where it drew none or made no such side.
ImposedPage(k, front, s) ==
    LET sd == IF front THEN "F" ELSE "B"
    IN IF HasSide(AllPages, k, sd) THEN SlotPage(SideOf(AllPages, k, sd), s)
       ELSE Null

\* C27 as stated: for every sheet of a finished run and each of its two
\* sides, the preview's getPageMappingForSheet gives every slot the input
\* page imposePdf drew there, and no page where imposePdf drew none.
C27_PreviewMatchesImposition ==
    pc = "done" =>
      \A k \in 0..(totalPhysicalSheets - 1) : \A front \in BOOLEAN :
        \A i \in 1..Len(PreviewMapping(k, front)) :
          PreviewMapping(k, front)[i] = ImposedPage(k, front, i - 1)

\* ---------------------------------------------------------------- C28
\* The sheets rendered in the c-th downloaded document.
SheetsOfChunk(c) ==
    {downloads[c].pages[i].sheet : i \in 1..Len(downloads[c].pages)}

\* C28: in a finished chunked run the documents partition the sheet range:
\* every sheet 0..total-1 is in exactly one document and no other sheet is
\* in any, each document holds a non-empty contiguous ascending block, the
\* blocks follow each other, and there are as many documents as announced.
C28_ChunksPartitionTheSheets ==
    pc = "done" /\ needsChunking =>
      LET N == Len(downloads)
      IN /\ N = totalChunks
         /\ \A c \in 1..N :
              LET pages == downloads[c].pages
                  sheets == SheetsOfChunk(c)
              IN /\ downloads[c].of = N
                 /\ sheets # {}
                 /\ sheets \subseteq 0..(totalPhysicalSheets - 1)
                 /\ \A a, b \in sheets : \A k \in a..b : k \in sheets
                 /\ \A i \in 1..(Len(pages) - 1) :
                      \/ pages[i + 1].sheet = pages[i].sheet + 1
                      \/ pages[i + 1].sheet = pages[i].sheet
                           /\ pages[i].side = "F" /\ pages[i + 1].side = "B"
                 /\ \A d \in 1..N : \A a \in sheets : \A b \in SheetsOfChunk(d) :
                      c < d => a < b
         /\ \A k \in 0..(totalPhysicalSheets - 1) :
              Cardinality({c \in 1..N : k \in SheetsOfChunk(c)}) = 1

\* A finished chunked run of five documents, the last one shorter than the
\* others.
C28_Witness ==
    /\ pc = "done"
    /\ needsChunking
    /\ Len(downloads) = 5
    /\ Cardinality(SheetsOfChunk(5)) < Cardinality(SheetsOfChunk(1))

\* ---------------------------------------------------------------- C29
\* C29 as stated: while the hook is in use, a document in its pdfDocProxy
\* state has not had destroy() called on it.
C29_ExposedDocumentIsNotDestroyed ==
    hookMounted /\ pdfDocProxy # 0 => pdfDocProxy \notin destroyedDocs


\* ---------------------------------------------------------------- C30
\* C30: after the previewed document changed and the cache was cleared, the
\* cache holds no canvas rendered from a previous document: every canvas in
\* the cache was rendered from the document now previewed.
C30_CacheHoldsOnlyTheCurrentDocument ==
    \A p \in DOMAIN pageRenderCacheRef : pageRenderCacheRef[p] = previewDoc


\* ---------------------------------------------------------------- C32
\* The index the booklet branch computes for slot s (0 left, 1 right) of
\* side sd of sheet k.
BookletIndex(k, sd, s) ==
    IF sd = "F"
      THEN (IF s = 0 THEN pageIndexFL(k) ELSE pageIndexFR(k))
    ELSE (IF s = 0 THEN pageIndexBL(k) ELSE pageIndexBR(k))

BookletSlots == (0..(totalPhysicalSheets - 1)) \X {"F", "B"} \X {0, 1}

\* C32: in a completed booklet run the slots of all sheets and both sides
\* carry every index of 0..padded-1 exactly once, every input page is drawn
\* exactly once, and the blank slots are exactly those whose index is >= P.
C32_BookletIsPermutationOfPaddedRange ==
    (impositionType = "booklet" /\ pc = "done") =>
        /\ paddedPageCount = 4 * CeilDiv(numInputPages, 4)
        /\ Len(AllPages) = 2 * totalPhysicalSheets
        /\ \A p \in 0..(paddedPageCount - 1) :
             Cardinality({t \in BookletSlots :
                            BookletIndex(t[1], t[2], t[3]) = p}) = 1
        /\ \A t \in BookletSlots :
             BookletIndex(t[1], t[2], t[3]) \in 0..(paddedPageCount - 1)
        /\ \A t \in BookletSlots :
             /\ HasSide(AllPages, t[1], t[2])
             /\ SlotPage(SideOf(AllPages, t[1], t[2]), t[3]) =
                  (IF BookletIndex(t[1], t[2], t[3]) >= numInputPages
                   THEN Null
                   ELSE BookletIndex(t[1], t[2], t[3]))
        /\ \A p \in 0..(numInputPages - 1) : TimesPlaced(AllPages, p) = 1

\* A completed booklet of 5 pages: 2 sheets, indices 5, 6 and 7 blank.
C32_Witness ==
    /\ impositionType = "booklet" /\ pc = "done"
    /\ numInputPages = 5
    /\ Len(AllPages) = 4
    /\ SlotPage(SideOf(AllPages, 0, "F"), 0) = Null
    /\ SlotPage(SideOf(AllPages, 1, "F"), 0) = Null
    /\ SlotPage(SideOf(AllPages, 1, "B"), 1) = 4


\* ---------------------------------------------------------------- C31
\* C31: the preview's position denotes an existing sheet side: when there
\* are sheets, the current sheet index is within 0..total-1, and the side
\* shown is the front whenever duplex is off.
C31_PositionIsAnExistingSheetSide ==
    totalPhysicalSheetsPreview > 0 =>
        /\ 0 <= currentPhysicalSheet0Based
        /\ currentPhysicalSheet0Based < totalPhysicalSheetsPreview
        /\ ~previewProps.isDuplex => currentSideIsFront


\* ---------------------------------------------------------------- C34
\* C34: between the steps of the getCachedPage calls the LRU list holds
\* every cached page index exactly once and no index that is not cached.
C34_LruListsTheCachedPagesOnce ==
    /\ \A p \in DOMAIN pageRenderCacheRef :
         Cardinality({i \in 1..Len(pageRenderLruRef) :
                        pageRenderLruRef[i] = p}) = 1
    /\ \A i \in 1..Len(pageRenderLruRef) :
         pageRenderLruRef[i] \in DOMAIN pageRenderCacheRef


\* ---------------------------------------------------------------- C35
\* The pages that leave the cache in a step that is not a document change.
EvictedPages == DOMAIN pageRenderCacheRef \ DOMAIN pageRenderCacheRef'

\* The first two and the last two pages of the previewed document.
FirstAndLastPages ==
    {p \in 0..(pageCountOf(previewDoc) - 1) :
        IndexOf(pagesToPinIndices(pageCountOf(previewDoc)), p) # 0}

\* C35: the cache never holds more than MAX_PAGE_CACHE_SIZE canvases, and
\* none of the first two and last two pages of the document is evicted
\* while a page that is not one of them is in the cache.
C35_CacheBoundAndPinnedPagesStay ==
    [][/\ Cardinality(DOMAIN pageRenderCacheRef) <= MAX_PAGE_CACHE_SIZE
       /\ Cardinality(DOMAIN pageRenderCacheRef') <= MAX_PAGE_CACHE_SIZE
       /\ previewDoc' = previewDoc =>
            \A p \in EvictedPages :
                p \in FirstAndLastPages =>
                    DOMAIN pageRenderCacheRef \subseteq FirstAndLastPages]_vars

\* What the eviction does keep to: the size of the cache, and the pages
\* that are in pinnedPagesRef at the time of the eviction.
EvictionRespectsPinnedPagesRef ==
    [][/\ Cardinality(DOMAIN pageRenderCacheRef') <= MAX_PAGE_CACHE_SIZE
       /\ previewDoc' = previewDoc =>
            \A p \in EvictedPages :
                p \in pinnedPagesRef =>
                    DOMAIN pageRenderCacheRef \subseteq pinnedPagesRef]_vars


\* ---------------------------------------------------------------- C33
\* The URLs created and not revoked.
LiveUrls == (1..urlsCreated) \ revokedUrls

\* Chunk URLs are revoked at once, the retained URL when the output is
\* cleared or a new run starts.
OnlyTheRetainedUrlIsAlive == LiveUrls \subseteq {currentOutputUrlRef}

\* C33: every object URL of an output is revoked at the point named for it:
\* the only URL alive is the retained one of the single-file output (chunk
\* URLs are revoked at once, the retained URL is when the output is cleared
\* or a new run starts), and none is alive once the component has unmounted
\* and no run is going on.
C33_ObjectUrlsAreRevoked ==
    /\ OnlyTheRetainedUrlIsAlive
    /\ (~imposeMounted /\ pc \in {"idle", "done", "error"}) => LiveUrls = {}

====
